---- MODULE Spec2Model ----
(***************************************************************************)
(* Model of the creator-IQ scoring route (leaderboard-route.ts, POST and   *)
(* analyzeWithAI) with the store it reads and writes, of the faucet route *)
(* (faucet-route.ts, POST) with its wallets and its records, and of the    *)
(* user search, mint and clear-cache routes.                               *)
(*                                                                         *)
(* Numbers that JavaScript computes in floating point are kept here as     *)
(* integers in hundredths (Scale), rounded down after each division.      *)
(* Values that come from a JSON payload are JS values: a number, or        *)
(* undefined, or a non-numeric string, or NaN.                             *)
(***************************************************************************)
EXTENDS Integers, Naturals, Sequences, FiniteSets, TLC

VARIABLES
    env,        \* process.env: which provider credentials are configured
    now,        \* the clock, in days
    iqdb,       \* users collection, field iqScore: fid -> entry or NoEntry
    users,      \* users collection, the user document: fid -> accounts or NoUser
    pc,         \* per invocation: the await the handler is suspended at
    req,        \* per invocation: the parsed request body
    accts,      \* per invocation: userVerifiedAccounts
    casts,      \* per invocation: the fetched casts
    analysis,   \* per invocation: the value analyzeWithAI returned
    resp,       \* per invocation: the HTTP response
    calls,      \* per invocation: how often each external call was made
    trace,      \* per invocation: the tiers entered, in order
    inflight,   \* per invocation: the network calls awaiting their response
    faults,     \* per invocation: the store operations that threw
    heard,      \* per invocation: the object parsed from the last provider answer
    drawn,      \* per invocation: the values Math.random() returned, in order
    features,   \* per invocation: the results of the extractors called so far
    lookup,     \* per invocation: the answer the external IQ block holds
    wallets,              \* FAUCET_WALLETS.length
    currentWalletIndex,   \* the module-level index of the wallet to use next
    balance,              \* the chain: balance of each wallet, in faucet amounts
    transfers,            \* the chain: the transactions sent, in order
    faucetdb,             \* faucet collection: address -> record or NoRecord
    fpc,                  \* per faucet request: the await it is suspended at
    userAddress,          \* per faucet request: the address of the body
    faucetWallet,         \* per faucet request: index of the wallet it holds
    recordIndex,          \* per faucet request: index given to saveFaucetRecord
    fresp,                \* per faucet request: the HTTP response
    cleared,    \* per fid: whether its score was cleared, and the invocation that came next
    spc,        \* per search request: the await it is suspended at
    query,      \* per search request: cleanQuery
    found,      \* per search request: the users searchFarcasterUsers returned
    sresp,      \* per search request: the HTTP response
    slog,       \* per search request: the store and network calls made, in order
    mpc,        \* per mint request: the await it is suspended at
    mbody,      \* per mint request: the parsed request body
    steps,      \* per mint request: the calls that returned, in order
    nfts,       \* the chain: the tokens minted, in order
    leaderboard,  \* leaderboard collection: fid -> entry or NoLeader
    mresp,      \* per mint request: the HTTP response
    cpc,        \* per clear-cache request: the await it is suspended at
    cfid,       \* per clear-cache request: the fid of the body
    cresp       \* per clear-cache request: the HTTP response

\* the state of the faucet route
faucetVars ==
    <<wallets, currentWalletIndex, balance, transfers, faucetdb, fpc, userAddress,
      faucetWallet, recordIndex, fresp>>

\* the state of the scoring route
scoreVars ==
    <<env, now, iqdb, users, pc, req, accts, casts, analysis, resp, calls, trace,
      inflight, faults, heard, drawn, features, lookup, cleared>>

\* the state of the user search route
searchVars == <<spc, query, found, sresp, slog>>

\* the state of the mint route
mintVars == <<mpc, mbody, steps, nfts, leaderboard, mresp>>

\* the state of the clear-cache route
clearVars == <<cpc, cfid, cresp>>

routeVars == <<searchVars, mintVars, clearVars>>

vars == <<scoreVars, faucetVars, routeVars>>

(***************************************************************************)
(* Bounds of the model.                                                    *)
(***************************************************************************)
NumInv == 1
NumFids == 1

Invs == 1..NumInv
Fids == 1..NumFids

(***************************************************************************)
(* Program constants.                                                      *)
(***************************************************************************)
MinScore == 55
MaxScore == 145
MinConfidence == 0
MaxConfidence == 100
ExternalConfidence == 85
RecentDays == 30

Scale == 10 * 10

(***************************************************************************)
(* JavaScript values and the Math functions the route applies to them.     *)
(***************************************************************************)
Num(n) == [t |-> "num", v |-> n]
NaN == [t |-> "nan", v |-> 0]
Undefined == [t |-> "undefined", v |-> 0]
Text == [t |-> "string", v |-> 0]

\* ToNumber of the operands of Math.min and Math.max: undefined and a
\* non-numeric string become NaN.
ToNumber(x) == IF x.t = "num" THEN x ELSE NaN

MathMin(a, b) ==
    LET x == ToNumber(a)
        y == ToNumber(b)
    IN  IF x.t = "nan" \/ y.t = "nan" THEN NaN
        ELSE IF x.v <= y.v THEN x ELSE y

MathMax(a, b) ==
    LET x == ToNumber(a)
        y == ToNumber(b)
    IN  IF x.t = "nan" \/ y.t = "nan" THEN NaN
        ELSE IF x.v >= y.v THEN x ELSE y

\* Math.max(lo, Math.min(hi, x))
Clamp(lo, hi, x) == MathMax(Num(lo), MathMin(Num(hi), x))

\* the truthiness test of `if (x)`
Truthy(x) == x.t = "string" \/ (x.t = "num" /\ x.v # 0)

InRange(x, lo, hi) == x.t = "num" /\ lo <= x.v /\ x.v <= hi

(***************************************************************************)
(* Strings: a text is a string, Len and SubSeq read its characters.        *)
(***************************************************************************)
Min2(a, b) == IF a <= b THEN a ELSE b
Max2(a, b) == IF a >= b THEN a ELSE b

Ch(s, k) == SubSeq(s, k, k)
CharsOf(s) == {Ch(s, k) : k \in 1..Len(s)}

UpperCase == "ABCDEFGHIJKLMNOPQRSTUVWXYZ"
LowerCase == "abcdefghijklmnopqrstuvwxyz"
Digits == "0123456789"
WordChars == CharsOf(UpperCase) \cup CharsOf(LowerCase) \cup CharsOf(Digits) \cup {"_"}
SpaceChars == {" "}
SentenceEnds == {".", "!", "?"}

\* pat occurs in s at position k
StartsAt(s, k, pat) ==
    /\ k + Len(pat) - 1 <= Len(s)
    /\ SubSeq(s, k, k + Len(pat) - 1) = pat

Contains(s, pat) == \E k \in 1..Len(s) : StartsAt(s, k, pat)

LowerOf(c) ==
    IF c \in CharsOf(UpperCase)
    THEN Ch(LowerCase, CHOOSE k \in 1..Len(UpperCase) : Ch(UpperCase, k) = c)
    ELSE c

RECURSIVE MapChars(_, _, _)
\* s from position k on, lower-cased, the characters outside keep dropped
MapChars(s, k, keep) ==
    IF k > Len(s) THEN ""
    ELSE (IF Ch(s, k) \in keep THEN LowerOf(Ch(s, k)) ELSE "")
         \o MapChars(s, k + 1, keep)

\* word.toLowerCase().replace(/[^\w]/g, '')
NormalWord(w) == MapChars(w, 1, WordChars)

\* pat occurs at position k of s.toLowerCase()
StartsAtLower(s, k, pat) ==
    /\ k + Len(pat) - 1 <= Len(s)
    /\ \A j \in 1..Len(pat) : LowerOf(Ch(s, k + j - 1)) = Ch(pat, j)

\* s.split(/[seps]+/) without its empty pieces: the maximal runs of
\* characters outside seps, each as <<first, last>>
Pieces(s, seps) ==
    { <<a, CHOOSE b \in a..Len(s) :
               /\ \A m \in a..b : Ch(s, m) \notin seps
               /\ (b = Len(s) \/ Ch(s, b + 1) \in seps)>> :
        a \in {k \in 1..Len(s) : /\ Ch(s, k) \notin seps
                                 /\ (k = 1 \/ Ch(s, k - 1) \in seps)} }

\* piece.trim().length > 0
NonBlank(s, piece) == \E k \in piece[1]..piece[2] : Ch(s, k) \notin SpaceChars

\* the first character of piece.trim()
FirstOfTrim(s, piece) ==
    Ch(s, CHOOSE k \in piece[1]..piece[2] :
              /\ Ch(s, k) \notin SpaceChars
              /\ \A m \in piece[1]..(k - 1) : Ch(s, m) \in SpaceChars)

RECURSIVE Join(_, _)
\* Array.prototype.join
Join(texts, sep) ==
    IF Len(texts) = 0 THEN ""
    ELSE IF Len(texts) = 1 THEN texts[1]
    ELSE texts[1] \o sep \o Join(Tail(texts), sep)

RECURSIVE Sum(_)
\* Array.prototype.reduce((sum, x) => sum + x, 0)
Sum(nums) == IF Len(nums) = 0 THEN 0 ELSE nums[1] + Sum(Tail(nums))

\* Array.prototype.filter(...).length, given the indexes that pass
Count(indexes) == Cardinality(indexes)

RECURSIVE SqrtBetween(_, _, _)
SqrtBetween(x, lo, hi) ==
    IF lo >= hi THEN lo
    ELSE LET mid == (lo + hi + 1) \div 2
         IN  IF mid * mid <= x
             THEN SqrtBetween(x, mid, hi)
             ELSE SqrtBetween(x, lo, mid - 1)

\* Math.sqrt, rounded down
Sqrt(x) == SqrtBetween(x, 0, 46340)

\* a / b in hundredths
Ratio(a, b) == (a * Scale) \div b

\* Math.round of a value in hundredths
Round(x) == (x + Scale \div 2) \div Scale

(***************************************************************************)
(* Feature extractors.  A cast is [text, likes, recasts, replies]; every   *)
(* result is in hundredths.  They are called with at least one cast.       *)
(***************************************************************************)
Interactions(cast) == cast.likes + cast.recasts + cast.replies

\* /https?:\/\/[^\s]+/
HasLink(text) ==
    \E k \in 1..Len(text) :
        \E scheme \in {"http://", "https://"} :
            /\ StartsAt(text, k, scheme)
            /\ k + Len(scheme) <= Len(text)
            /\ Ch(text, k + Len(scheme)) \notin SpaceChars

\* /@\w+/ and /#\w+/
HasTag(text, sign) ==
    \E k \in 1..(Len(text) - 1) : Ch(text, k) = sign /\ Ch(text, k + 1) \in WordChars

\* analyzeContentQuality with the two length limits taken inclusive
analyzeContentQuality_Inclusive(cs) ==
    LET n == Len(cs)
        idx == 1..n
        totalChars == Sum([k \in idx |-> Len(cs[k].text)])
    IN  [ avgLength       |-> Ratio(totalChars, n),
          longPostRatio   |-> Ratio(Count({k \in idx : Len(cs[k].text) >= 100}), n),
          shortPostRatio  |-> Ratio(Count({k \in idx : Len(cs[k].text) <= 50}), n),
          hasLinks        |-> Ratio(Count({k \in idx : HasLink(cs[k].text)}), n),
          hasMentions     |-> Ratio(Count({k \in idx : HasTag(cs[k].text, "@")}), n),
          hasHashtags     |-> Ratio(Count({k \in idx : HasTag(cs[k].text, "#")}), n),
          hasQuestions    |-> Ratio(Count({k \in idx : Contains(cs[k].text, "?")}), n),
          hasExclamations |-> Ratio(Count({k \in idx : Contains(cs[k].text, "!")}), n) ]

analyzeContentQuality(cs) ==
    LET n == Len(cs)
        idx == 1..n
        totalChars == Sum([k \in idx |-> Len(cs[k].text)])
    IN  [ avgLength       |-> Ratio(totalChars, n),
          longPostRatio   |-> Ratio(Count({k \in idx : Len(cs[k].text) > 100}), n),
          shortPostRatio  |-> Ratio(Count({k \in idx : Len(cs[k].text) < 50}), n),
          hasLinks        |-> Ratio(Count({k \in idx : HasLink(cs[k].text)}), n),
          hasMentions     |-> Ratio(Count({k \in idx : HasTag(cs[k].text, "@")}), n),
          hasHashtags     |-> Ratio(Count({k \in idx : HasTag(cs[k].text, "#")}), n),
          hasQuestions    |-> Ratio(Count({k \in idx : Contains(cs[k].text, "?")}), n),
          hasExclamations |-> Ratio(Count({k \in idx : Contains(cs[k].text, "!")}), n) ]

\* calculateConsistencyScore that lets a single cast through
calculateConsistencyScore_OneCast(cs) ==
    IF Len(cs) < 1 THEN 0 ELSE
    LET n == Len(cs)
        rates == [k \in 1..n |-> Interactions(cs[k]) * Scale]
        mean == Sum(rates) \div n
        variance == Sum([k \in 1..n |-> (rates[k] - mean) * (rates[k] - mean)]) \div n
        stdDev == Sqrt(variance)
    IN  Max2(0, 100 * Scale - (stdDev * Scale * 50) \div Max2(mean, Scale))

calculateConsistencyScore(cs) ==
    IF Len(cs) < 2 THEN 0
    ELSE LET n == Len(cs)
             rates == [k \in 1..n |-> Interactions(cs[k]) * Scale]
             mean == Sum(rates) \div n
             variance == Sum([k \in 1..n |-> (rates[k] - mean) * (rates[k] - mean)]) \div n
             stdDev == Sqrt(variance)
         IN  Max2(0, 100 * Scale - (stdDev * Scale * 50) \div Max2(mean, Scale))

calculateEngagementMetrics(cs) ==
    LET n == Len(cs)
        idx == 1..n
        totalEngagement == Sum([k \in idx |-> Interactions(cs[k])])
    IN  [ totalEngagement     |-> totalEngagement,
          engagementPerPost   |-> Ratio(totalEngagement, n),
          highEngagementRatio |-> Ratio(Count({k \in idx : Interactions(cs[k]) > 10}), n),
          viralPostRatio      |->
              Ratio(Count({k \in idx : cs[k].likes + cs[k].recasts > 50}), n),
          consistencyScore    |-> calculateConsistencyScore(cs) ]

analyzeWritingStyle(cs) ==
    LET allText == Join([k \in 1..Len(cs) |-> cs[k].text], " ")
        words == Pieces(allText, SpaceChars)
        sentences == {p \in Pieces(allText, SentenceEnds) : NonBlank(allText, p)}
        \* the lengths of the words add up to the characters that are no space
        wordChars == Count({k \in 1..Len(allText) : Ch(allText, k) \notin SpaceChars})
        uniqueWords == {NormalWord(SubSeq(allText, w[1], w[2])) : w \in words}
        capitalized == {p \in sentences : FirstOfTrim(allText, p) \in CharsOf(UpperCase)}
        totalWords == Cardinality(words)
        totalSentences == Cardinality(sentences)
    IN  [ avgWordsPerSentence  |-> Ratio(totalWords, Max2(totalSentences, 1)),
          avgWordLength        |-> Ratio(wordChars, Max2(totalWords, 1)),
          vocabularyRatio      |-> Ratio(Cardinality(uniqueWords), Max2(totalWords, 1)),
          properCapitalization |-> Ratio(Count(capitalized), Max2(totalSentences, 1)),
          totalWords           |-> totalWords,
          uniqueWordsCount     |-> Cardinality(uniqueWords) ]

\* The topics in the order the object literal declares them, each with the
\* alternatives of its regular expression in order.  The three emoji of the
\* humor expression are written by their code points.
TopicNames ==
    <<"tech", "finance", "politics", "culture", "sports", "humor", "philosophy", "science">>

TopicKeywords ==
    [ tech |-> <<"ai", "artificial intelligence", "machine learning", "blockchain",
                 "crypto", "web3", "programming", "code", "software", "tech",
                 "technology", "startup", "entrepreneur">>,
      finance |-> <<"money", "finance", "investment", "trading", "stock", "market",
                    "economy", "financial", "wealth", "profit", "loss", "portfolio">>,
      politics |-> <<"politics", "government", "policy", "election", "vote", "democrat",
                     "republican", "liberal", "conservative", "political">>,
      culture |-> <<"culture", "art", "music", "film", "movie", "book", "literature",
                    "poetry", "creative", "design", "fashion", "style">>,
      sports |-> <<"sports", "football", "basketball", "soccer", "baseball", "game",
                   "team", "player", "championship", "league">>,
      humor |-> <<"funny", "joke", "humor", "comedy", "lol", "haha", "U+1F602",
                  "U+1F604", "U+1F606", "laugh", "hilarious">>,
      philosophy |-> <<"philosophy", "meaning", "purpose", "existence", "truth",
                       "reality", "consciousness", "mind", "thought", "wisdom">>,
      science |-> <<"science", "research", "study", "experiment", "data", "analysis",
                    "scientific", "discovery", "theory", "hypothesis">> ]

RECURSIVE MatchesFrom(_, _, _)
\* (allText.match(regex) || []).length for a global regex of alternatives,
\* allText being text.toLowerCase(): the leftmost position from k on where
\* an alternative matches is taken, with the first alternative that matches
\* there, and the search goes on after it
MatchesFrom(text, k, alts) ==
    LET at(p) == {a \in 1..Len(alts) : StartsAtLower(text, p, alts[a])}
        starts == {p \in k..Len(text) : at(p) # {}}
    IN  IF starts = {} THEN 0
        ELSE LET p == CHOOSE q \in starts : \A r \in starts : q <= r
                 first == CHOOSE a \in at(p) : \A c \in at(p) : a <= c
             IN  1 + MatchesFrom(text, p + Len(alts[first]), alts)

RECURSIVE ReducePrimary(_, _, _)
\* Object.entries(topicCounts).reduce((a, b) => a[1] > b[1] ? a : b)[0]
ReducePrimary(counts, a, k) ==
    IF k > Len(TopicNames) THEN a
    ELSE ReducePrimary(counts,
                       IF counts[a] > counts[TopicNames[k]] THEN a ELSE TopicNames[k],
                       k + 1)

\* analyzeTopicDiversity that takes the matches for the active topics
analyzeTopicDiversity_ByMatches(cs) ==
    LET allText == Join([k \in 1..Len(cs) |-> cs[k].text], " ")
        topicCounts == [name \in {TopicNames[k] : k \in 1..Len(TopicNames)} |->
                           MatchesFrom(allText, 1, TopicKeywords[name])]
        activeTopics == Sum([k \in 1..Len(TopicNames) |-> topicCounts[TopicNames[k]]])
    IN  [ topicCounts       |-> topicCounts,
          totalTopicMatches |-> Sum([k \in 1..Len(TopicNames) |-> topicCounts[TopicNames[k]]]),
          activeTopics      |-> activeTopics,
          diversityScore    |-> Min2(100 * Scale, (activeTopics * 100 * Scale) \div Len(TopicNames)),
          primaryTopic      |-> ReducePrimary(topicCounts, TopicNames[1], 2) ]

analyzeTopicDiversity(cs) ==
    LET allText == Join([k \in 1..Len(cs) |-> cs[k].text], " ")
        topicCounts == [name \in {TopicNames[k] : k \in 1..Len(TopicNames)} |->
                           MatchesFrom(allText, 1, TopicKeywords[name])]
        activeTopics == Count({k \in 1..Len(TopicNames) : topicCounts[TopicNames[k]] > 0})
    IN  [ topicCounts       |-> topicCounts,
          totalTopicMatches |-> Sum([k \in 1..Len(TopicNames) |-> topicCounts[TopicNames[k]]]),
          activeTopics      |-> activeTopics,
          diversityScore    |-> Min2(100 * Scale, (activeTopics * 100 * Scale) \div Len(TopicNames)),
          primaryTopic      |-> ReducePrimary(topicCounts, TopicNames[1], 2) ]

(***************************************************************************)
(* The casts the feed may answer with.                                     *)
(***************************************************************************)
Cast(text, likes, recasts, replies) ==
    [text |-> text, likes |-> likes, recasts |-> recasts, replies |-> replies]

ShortCast == Cast("gm", 0, 0, 0)
QuestionCast == Cast("Why is AI code so funny? See https://x.io @bob", 4, 1, 2)
LongCast ==
    Cast("Markets reward patience. The study of history is the study of money, art and "
         \o "government policy. Truth matters!", 40, 15, 3)

\* data.casts of the feed answer; the empty one is also what fetchUserCasts
\* returns when the call fails
CastSets == { <<>>, <<ShortCast>>, <<QuestionCast, LongCast>> }

\* longer answers of the feed: the same cast up to MaxFeed times
MaxFeed == 19
Repeated(cast, n) == [k \in 1..n |-> cast]
LongFeeds ==
    {Repeated(cast, n) : cast \in {ShortCast, Cast("AI?", 40, 20, 6)}, n \in 1..MaxFeed}

(***************************************************************************)
(* The two local tiers of analyzeWithAI.  random is a value of             *)
(* Math.random() in hundredths, 0..99.                                     *)
(***************************************************************************)
Result(score, text, confidence) ==
    [score |-> score, analysis |-> text, confidence |-> confidence]

ComprehensiveScore(cs) ==
    LET contentAnalysis == analyzeContentQuality(cs)
        engagementMetrics == calculateEngagementMetrics(cs)
        writingStyleAnalysis == analyzeWritingStyle(cs)
        topicDiversity == analyzeTopicDiversity(cs)
        contentQualityScore ==
            Min2(100 * Scale,
                 (contentAnalysis.avgLength * 3) \div 10
                 + contentAnalysis.longPostRatio * 50
                 + contentAnalysis.hasQuestions * 30
                 + contentAnalysis.hasLinks * 20
                 + contentAnalysis.hasMentions * 15)
        writingStyleScore ==
            Min2(100 * Scale,
                 writingStyleAnalysis.vocabularyRatio * 40
                 + writingStyleAnalysis.avgWordsPerSentence * 2
                 + writingStyleAnalysis.properCapitalization * 30
                 + writingStyleAnalysis.avgWordLength * 3)
        engagementScore ==
            Min2(100 * Scale,
                 engagementMetrics.engagementPerPost \div 2
                 + (engagementMetrics.consistencyScore * 3) \div 10
                 + engagementMetrics.viralPostRatio * 50)
        topicDiversityScore == topicDiversity.diversityScore
    IN  (contentQualityScore + writingStyleScore + engagementScore + topicDiversityScore)
            \div 4

\* the four scores that comprehensiveScore weighs, as the fallback computes them
contentQualityScore(cs) ==
    LET contentAnalysis == analyzeContentQuality(cs)
    IN  Min2(100 * Scale,
             (contentAnalysis.avgLength * 3) \div 10
             + contentAnalysis.longPostRatio * 50
             + contentAnalysis.hasQuestions * 30
             + contentAnalysis.hasLinks * 20
             + contentAnalysis.hasMentions * 15)

writingStyleScore(cs) ==
    LET writingStyleAnalysis == analyzeWritingStyle(cs)
    IN  Min2(100 * Scale,
             writingStyleAnalysis.vocabularyRatio * 40
             + writingStyleAnalysis.avgWordsPerSentence * 2
             + writingStyleAnalysis.properCapitalization * 30
             + writingStyleAnalysis.avgWordLength * 3)

engagementScore(cs) ==
    LET engagementMetrics == calculateEngagementMetrics(cs)
    IN  Min2(100 * Scale,
             engagementMetrics.engagementPerPost \div 2
             + (engagementMetrics.consistencyScore * 3) \div 10
             + engagementMetrics.viralPostRatio * 50)

topicDiversityScore(cs) == analyzeTopicDiversity(cs).diversityScore

\* comprehensiveScore of each answer of the feed
ComprehensiveScores == [cs \in CastSets \ {<<>>} |-> ComprehensiveScore(cs)]

\* comprehensiveScore of the casts of an invocation
ComprehensiveScoreOf(cs) ==
    IF cs \in DOMAIN ComprehensiveScores
    THEN ComprehensiveScores[cs]
    ELSE ComprehensiveScore(cs)

\* contentAnalysis, engagementMetrics, writingStyleAnalysis and topicDiversity
\* of each answer of the feed
Extracted ==
    [cs \in CastSets \ {<<>>} |->
        [ contentAnalysis      |-> analyzeContentQuality(cs),
          engagementMetrics    |-> calculateEngagementMetrics(cs),
          writingStyleAnalysis |-> analyzeWritingStyle(cs),
          topicDiversity       |-> analyzeTopicDiversity(cs) ]]

\* HeuristicResult without the upper limit of the confidence
HeuristicResult_Uncapped(cs, random) ==
    LET comprehensiveScore == ComprehensiveScoreOf(cs)
        baseScore == 70 * Scale + (comprehensiveScore * 6) \div 10 + (Len(cs) * Scale) \div 5
        randomFactor == (random - Scale \div 2) * 15
        finalScore == Max2(MinScore, Min2(MaxScore, Round(baseScore + randomFactor)))
        confidence ==
            Max2(30 * Scale,
                 50 * Scale + Len(cs) * 2 * Scale + (comprehensiveScore * 3) \div 10)
    IN  Result(Num(finalScore), Text, Num(Round(confidence)))

\* HeuristicResult with comprehensiveScore taken whole instead of times 0.6
HeuristicResult_Unweighted(cs, random) ==
    LET comprehensiveScore == ComprehensiveScoreOf(cs)
        baseScore == 70 * Scale + comprehensiveScore + (Len(cs) * Scale) \div 5
        randomFactor == (random - Scale \div 2) * 15
        finalScore == Max2(MinScore, Min2(MaxScore, Round(baseScore + randomFactor)))
        confidence ==
            Max2(30 * Scale,
                 Min2(85 * Scale,
                      50 * Scale + Len(cs) * 2 * Scale + (comprehensiveScore * 3) \div 10))
    IN  Result(Num(finalScore), Text, Num(Round(confidence)))

HeuristicResult(cs, random) ==
    LET comprehensiveScore == ComprehensiveScoreOf(cs)
        baseScore == 70 * Scale + (comprehensiveScore * 6) \div 10 + (Len(cs) * Scale) \div 5
        randomFactor == (random - Scale \div 2) * 15
        finalScore == Max2(MinScore, Min2(MaxScore, Round(baseScore + randomFactor)))
        confidence ==
            Max2(30 * Scale,
                 Min2(85 * Scale,
                      50 * Scale + Len(cs) * 2 * Scale + (comprehensiveScore * 3) \div 10))
    IN  Result(Num(finalScore), Text, Num(Round(confidence)))

DegradedResult(cs, random) ==
    LET fallbackScore ==
            Max2(MinScore * Scale,
                 Min2(MaxScore * Scale, 85 * Scale + (random - Scale \div 2) * 40))
        fallbackConfidence ==
            Max2(25 * Scale, Min2(60 * Scale, 40 * Scale + (Len(cs) * 3 * Scale) \div 2))
    IN  Result(Num(Round(fallbackScore)), Text, Num(Round(fallbackConfidence)))

\* the object a provider tier returns for the JSON it parsed
ProviderResult(parsed) ==
    Result(Clamp(MinScore, MaxScore, parsed.score),
           parsed.analysis,
           Clamp(MinConfidence, MaxConfidence, parsed.confidence))

\* the object the authoritative tier returns
ExternalResult(iqScore) ==
    Result(Clamp(MinScore, MaxScore, iqScore), Text, Num(ExternalConfidence))

(***************************************************************************)
(* What the collaborators may answer.                                      *)
(***************************************************************************)
Account(platform, username) == [platform |-> platform, username |-> username]

AccountLists ==
    { <<>>,
      <<Account("github", "dev")>>,
      <<Account("github", "dev"), Account("x", "dev")>>,
      <<Account("x", "")>> }

\* values of Math.random(), in hundredths
RandomValues == {0, 99}

\* iqScore of the external answer
ExternalScores == {Undefined, Text, Num(0), Num(30), Num(120), Num(200)}

\* the answer to the external IQ request: fetch rejects, the status is not
\* OK, json() rejects, or a body
ExternalAnswers ==
    [kind : {"rejected", "notOk", "badBody"}, iqScore : {Undefined}]
    \cup [kind : {"ok"}, iqScore : ExternalScores]

\* no answer of the external IQ request is held
NoAnswer == [kind |-> "none", iqScore |-> Undefined]

Payload(score, text, confidence) ==
    [score |-> score, analysis |-> text, confidence |-> confidence]

\* the JSON object found in a provider's text: complete, with numbers
\* outside the ranges, or with a field missing or not a number
Payloads ==
    { Payload(Num(100), Text, Num(90)),
      Payload(Num(30), Text, Num(-5)),
      Payload(Num(200), Text, Num(150)),
      Payload(Undefined, Text, Num(90)),
      Payload(Text, Text, Num(90)),
      Payload(Num(100), Undefined, Num(90)),
      Payload(Num(100), Text, Undefined) }

NoPayload == [score |-> Undefined, analysis |-> Undefined, confidence |-> Undefined]

\* the answer of a provider: fetch rejects, the status is not OK, json()
\* rejects, the body has no choices (candidates), the text is empty, the
\* text holds no {...}, JSON.parse throws, or an object is parsed
ProviderAnswers ==
    [kind : {"rejected", "notOk", "badBody", "noChoices", "noContent", "noJson",
             "badJson"},
     parsed : {NoPayload}]
    \cup [kind : {"parsed"}, parsed : Payloads]

(***************************************************************************)
(* The store (lib/mongodb).                                                *)
(***************************************************************************)
NoEntry ==
    [present |-> FALSE, score |-> Undefined, analysis |-> Undefined,
     confidence |-> Undefined, analyzedAt |-> 0]

Entry(r, at) ==
    [present |-> TRUE, score |-> r.score, analysis |-> r.analysis,
     confidence |-> r.confidence, analyzedAt |-> at]

NoUser == [present |-> FALSE, verified_accounts |-> <<>>]
User(list) == [present |-> TRUE, verified_accounts |-> list]

\* hasRecentIQScore(fid, days)
hasRecentIQScore(fid, days) ==
    iqdb[fid].present /\ now - iqdb[fid].analyzedAt <= days

\* getIQScoreFromDatabase(fid)
getIQScoreFromDatabase(fid) == iqdb[fid]

\* saveIQScoreToDatabase(fid, result)
saveIQScoreToDatabase(fid, r) == [iqdb EXCEPT ![fid] = Entry(r, now)]

\* getUserFromDatabaseByFid(fid)
getUserFromDatabaseByFid(fid) == users[fid]

(***************************************************************************)
(* The faucet route: its wallets, the chain and the faucet records         *)
(* (lib/mongodb).                                                          *)
(***************************************************************************)
MaxWallets == 3
NumAddresses == 2
NumRequests == 2
Funds == 2

Addresses == 1..NumAddresses
FaucetReqs == 1..NumRequests

\* the indexes of FAUCET_WALLETS
WalletIndexes == 0..(wallets - 1)

\* the body of a faucet request: userAddress is missing, is no address, or
\* is an address
Body(kind, address) == [kind |-> kind, address |-> address]
FaucetBodies ==
    {Body("missing", 0), Body("invalid", 0)}
    \cup {Body("address", a) : a \in Addresses}

NoRecord == [present |-> FALSE, walletIndex |-> 0]
Record(index) == [present |-> TRUE, walletIndex |-> index]

\* hasReceivedFaucetFromDatabase(userAddress)
hasReceivedFaucetFromDatabase(address) == faucetdb[address].present

\* saveFaucetRecord(userAddress, amount, walletIndex, txHash)
saveFaucetRecord(address, index) == [faucetdb EXCEPT ![address] = Record(index)]

\* a transaction on the chain: request by sent it from wallet from
Transfer(to, from, by) == [to |-> to, from |-> from, by |-> by]

NoFaucetResponse == [status |-> 0, error |-> "", faucetWallet |-> 0]
FaucetError(status, error) == [status |-> status, error |-> error, faucetWallet |-> 0]
FaucetSuccess(index) == [status |-> 200, error |-> "", faucetWallet |-> index]

\* no faucet request has been made
IdleRequests ==
    /\ currentWalletIndex = 0
    /\ transfers = <<>>
    /\ faucetdb = [a \in Addresses |-> NoRecord]
    /\ fpc = [r \in FaucetReqs |-> "idle"]
    /\ userAddress = [r \in FaucetReqs |-> 0]
    /\ faucetWallet = [r \in FaucetReqs |-> 0]
    /\ recordIndex = [r \in FaucetReqs |-> 0]
    /\ fresp = [r \in FaucetReqs |-> NoFaucetResponse]

\* the faucet route of a deployment without faucet wallets, not called
IdleFaucet ==
    /\ wallets = 0
    /\ balance = [w \in WalletIndexes |-> 0]
    /\ IdleRequests

(***************************************************************************)
(* The user search route (POST and searchFarcasterUsers) and the user      *)
(* documents it reads and writes (lib/mongodb).                            *)
(***************************************************************************)
NumSearches == 3

Searches == 1..NumSearches

\* the username of the account with fid f
Usernames == <<"dev", "ana", "kim", "lou">>
Username(f) == IF f \in 1..Len(Usernames) THEN Usernames[f] ELSE "user"

\* the query of a request body; the schema takes a string of 1..100 characters
Queries == {"", "dev", "@dev ", "@@dev", "@", "nobody"}
SchemaAccepts(q) == Len(q) >= 1 /\ Len(q) <= 100

\* s.trim()
Trim(s) ==
    LET inked == {k \in 1..Len(s) : Ch(s, k) \notin SpaceChars}
    IN  IF inked = {} THEN ""
        ELSE SubSeq(s, CHOOSE a \in inked : \A k \in inked : a <= k,
                       CHOOSE b \in inked : \A k \in inked : k <= b)

\* query.replace(/^@/, '').trim()
CleanQuery(q) ==
    Trim(IF Len(q) >= 1 /\ Ch(q, 1) = "@" THEN SubSeq(q, 2, Len(q)) ELSE q)

\* a user as the user API returns it
NeynarUser(f, list) ==
    [fid |-> f, username |-> Username(f), verified_accounts |-> list]

\* what searchFarcasterUsers returns once fetch has settled: the user of
\* that name, or nothing (status 404, another status, no user in the body,
\* a rejection)
SearchAnswers(name) ==
    {<<>>} \cup {<<NeynarUser(f, list)>> :
                    f \in {g \in DOMAIN users : Username(g) = name},
                    list \in {<<>>, <<Account("x", "dev")>>}}

\* a user document as getUserFromDatabase returns it, or null
NoStoredUser ==
    [present |-> FALSE, fid |-> 0, username |-> "", verified_accounts |-> <<>>]
StoredUser(f) ==
    [present |-> TRUE, fid |-> f, username |-> Username(f),
     verified_accounts |-> users[f].verified_accounts]

\* getUserFromDatabase(username)
getUserFromDatabase(name) ==
    LET docs == {f \in DOMAIN users : users[f].present /\ Username(f) = name}
    IN  IF docs = {} THEN NoStoredUser ELSE StoredUser(CHOOSE f \in docs : TRUE)

\* saveUserToDatabase(user)
saveUserToDatabase(user) ==
    [users EXCEPT ![user.fid] = User(user.verified_accounts)]

\* the user as the response carries it
Transformed(user) ==
    [fid |-> user.fid, username |-> user.username,
     verifiedAccounts |-> user.verified_accounts]

NoSearchResponse ==
    [status |-> 0, success |-> FALSE, users |-> <<>>, source |-> "none",
     message |-> ""]
SearchError(status) == [NoSearchResponse EXCEPT !.status = status]
\* Response.json({success: true, users, source}) or ({success: true, users: [], message})
SearchResult(list, source, message) ==
    [status |-> 200, success |-> TRUE, users |-> list, source |-> source,
     message |-> message]

\* no search request has been made
IdleSearch ==
    /\ spc = [s \in Searches |-> "idle"]
    /\ query = [s \in Searches |-> ""]
    /\ found = [s \in Searches |-> <<>>]
    /\ sresp = [s \in Searches |-> NoSearchResponse]
    /\ slog = [s \in Searches |-> <<>>]

(***************************************************************************)
(* The mint route: the pinning service, the chain and the leaderboard      *)
(* (lib/mongodb).                                                          *)
(***************************************************************************)
NumMints == 2

Mints == 1..NumMints

\* the body of a mint request; a field that is missing, empty or 0 is falsy
MintBodies ==
    [imageDataUrl : BOOLEAN, userAddress : BOOLEAN, score : {0, 120},
     fid : {0} \cup Fids]
NoMintBody == [imageDataUrl |-> FALSE, userAddress |-> FALSE, score |-> 0, fid |-> 0]

NoLeader == [present |-> FALSE, score |-> 0]
Leader(score) == [present |-> TRUE, score |-> score]

\* addToLeaderboard(fid, username, pfpUrl, score)
addToLeaderboard(fid, score) == [leaderboard EXCEPT ![fid] = Leader(score)]

\* a mint transaction on the chain, sent by request by
Token(by, score) == [by |-> by, score |-> score]

NoMintResponse == [status |-> 0, success |-> FALSE]
MintError(status) == [status |-> status, success |-> FALSE]
MintSuccess == [status |-> 200, success |-> TRUE]

\* no mint request has been made
IdleMint ==
    /\ mpc = [m \in Mints |-> "idle"]
    /\ mbody = [m \in Mints |-> NoMintBody]
    /\ steps = [m \in Mints |-> <<>>]
    /\ nfts = <<>>
    /\ leaderboard = [f \in Fids |-> NoLeader]
    /\ mresp = [m \in Mints |-> NoMintResponse]

(***************************************************************************)
(* The clear-cache route.                                                  *)
(***************************************************************************)
NumClears == 1

Clears == 1..NumClears

\* the users collection holds a document with this fid
HasDocument(fid) ==
    fid \in DOMAIN users /\ (users[fid].present \/ iqdb[fid].present)

\* collection.updateOne({fid}, {$unset: {iqScore: ""}, $set: {updatedAt}})
unsetIQScore(fid) ==
    IF HasDocument(fid) THEN [iqdb EXCEPT ![fid] = NoEntry] ELSE iqdb

\* the score of the account has not been cleared; it has been cleared and no
\* invocation has asked for it since; invocation i was the next to ask for it
NotCleared == [state |-> "no", next |-> 0]
JustCleared == [state |-> "cleared", next |-> 0]
FollowedBy(i) == [state |-> "followed", next |-> i]

NoClearResponse == [status |-> 0, success |-> FALSE]
ClearError(status) == [status |-> status, success |-> FALSE]
ClearSuccess == [status |-> 200, success |-> TRUE]

\* no clear-cache request has been made
IdleClear ==
    /\ cpc = [c \in Clears |-> "idle"]
    /\ cfid = [c \in Clears |-> 0]
    /\ cresp = [c \in Clears |-> NoClearResponse]

\* the search, mint and clear-cache routes are not called
IdleRoutes == IdleSearch /\ IdleMint /\ IdleClear

(***************************************************************************)
(* The state of one invocation of POST.                                    *)
(***************************************************************************)
CallNames == {"fetchUserData", "fetchUserCasts", "external", "openai", "gemini"}
Tiers ==
    <<"CacheCheck", "AuthoritativeLookup", "ProviderA", "ProviderB", "Heuristic",
      "Degraded">>

NoResult == Result(Undefined, Undefined, Undefined)

NoResponse ==
    [status |-> 0, success |-> FALSE, score |-> Undefined, analysis |-> Undefined,
     confidence |-> Undefined, source |-> "none"]

ErrorResponse(status) == [NoResponse EXCEPT !.status = status]

\* Response.json({success: true, score, analysis, confidence, source})
ScoreResponse(r, source) ==
    [status |-> 200, success |-> TRUE, score |-> r.score, analysis |-> r.analysis,
     confidence |-> r.confidence, source |-> source]

\* the fid of the request body
NoRequest == [fid |-> 0]
Requests == [fid : Fids]

Called(i, name) == [calls EXCEPT ![i][name] = @ + 1]
Sent(i, name) == [inflight EXCEPT ![i] = @ \cup {name}]
Answered(i, name) == [inflight EXCEPT ![i] = @ \ {name}]
Entered(i, tier) == [trace EXCEPT ![i] = Append(@, tier)]
Threw(i, op) == [faults EXCEPT ![i] = @ \cup {op}]
Drew(i, random) == [drawn EXCEPT ![i] = Append(@, random)]
\* invocation i asks for the score of fid: it is the next after a clear-cache
\* of that fid if no other invocation has asked since
Asked(i, fid) ==
    [cleared EXCEPT ![fid] = IF @ = JustCleared THEN FollowedBy(i) ELSE @]
\* invocation i is over
Left(i) ==
    [f \in DOMAIN cleared |->
        IF cleared[f] = FollowedBy(i) THEN NotCleared ELSE cleared[f]]

\* contentAnalysis, engagementMetrics, writingStyleAnalysis and topicDiversity
\* before the extractors are called
Pending == [pending |-> TRUE]
NoFeatures ==
    [contentAnalysis |-> Pending, engagementMetrics |-> Pending,
     writingStyleAnalysis |-> Pending, topicDiversity |-> Pending]

Init ==
    /\ env \in [openai : BOOLEAN, gemini : BOOLEAN]
    /\ now = 0
    /\ iqdb = [f \in Fids |-> NoEntry]
    /\ users \in [Fids -> {NoUser, User(<<Account("github", "dev"), Account("x", "dev")>>)}]
    /\ pc = [i \in Invs |-> "idle"]
    /\ req = [i \in Invs |-> NoRequest]
    /\ accts = [i \in Invs |-> <<>>]
    /\ casts = [i \in Invs |-> <<>>]
    /\ analysis = [i \in Invs |-> NoResult]
    /\ resp = [i \in Invs |-> NoResponse]
    /\ calls = [i \in Invs |-> [c \in CallNames |-> 0]]
    /\ trace = [i \in Invs |-> <<>>]
    /\ inflight = [i \in Invs |-> {}]
    /\ faults = [i \in Invs |-> {}]
    /\ heard = [i \in Invs |-> NoPayload]
    /\ drawn = [i \in Invs |-> <<>>]
    /\ features = [i \in Invs |-> NoFeatures]
    /\ lookup = [i \in Invs |-> NoAnswer]
    /\ cleared = [f \in DOMAIN iqdb |-> NotCleared]
    /\ IdleFaucet
    /\ IdleRoutes

\* the catch of POST: any exception that reaches it ends the request
Fail(i, op) ==
    /\ pc' = [pc EXCEPT ![i] = "done"]
    /\ resp' = [resp EXCEPT ![i] = ErrorResponse(500)]
    /\ faults' = Threw(i, op)

\* the locals of an invocation that has not started or has returned
Fresh(i) ==
    /\ req' = [req EXCEPT ![i] = NoRequest]
    /\ accts' = [accts EXCEPT ![i] = <<>>]
    /\ casts' = [casts EXCEPT ![i] = <<>>]
    /\ analysis' = [analysis EXCEPT ![i] = NoResult]
    /\ calls' = [calls EXCEPT ![i] = [c \in CallNames |-> 0]]
    /\ trace' = [trace EXCEPT ![i] = <<>>]
    /\ inflight' = [inflight EXCEPT ![i] = {}]
    /\ faults' = [faults EXCEPT ![i] = {}]
    /\ heard' = [heard EXCEPT ![i] = NoPayload]
    /\ drawn' = [drawn EXCEPT ![i] = <<>>]
    /\ features' = [features EXCEPT ![i] = NoFeatures]
    /\ lookup' = [lookup EXCEPT ![i] = NoAnswer]

\* POST is entered with a body the schema accepts; the recency check is awaited
Receive(i) ==
    /\ pc[i] = "idle"
    /\ \E r \in Requests :
          /\ req' = [req EXCEPT ![i] = r]
          /\ cleared' = Asked(i, r.fid)
    /\ pc' = [pc EXCEPT ![i] = "hasRecent"]
    /\ trace' = [trace EXCEPT ![i] = <<"CacheCheck">>]
    /\ UNCHANGED <<routeVars, faucetVars, lookup, env, now, iqdb, users,
                   accts, casts, analysis, resp, calls, inflight, faults, heard,
                   drawn, features>>

\* POST is entered with a body the schema rejects
Reject(i) ==
    /\ pc[i] = "idle"
    /\ pc' = [pc EXCEPT ![i] = "done"]
    /\ resp' = [resp EXCEPT ![i] = ErrorResponse(400)]
    /\ UNCHANGED <<routeVars, faucetVars, cleared, lookup, env, now, iqdb, users, req,
                   accts, casts, analysis, calls, trace, inflight, faults, heard,
                   drawn, features>>

\* the response is delivered and the invocation is over
Finish(i) ==
    /\ pc[i] = "done"
    /\ pc' = [pc EXCEPT ![i] = "idle"]
    /\ resp' = [resp EXCEPT ![i] = NoResponse]
    /\ Fresh(i)
    /\ cleared' = Left(i)
    /\ UNCHANGED <<routeVars, faucetVars, env, now, iqdb, users>>

\* HasRecent that takes any stored entry, whatever its age
HasRecent_AnyAge(i) ==
    /\ pc[i] = "hasRecent"
    /\ pc' = [pc EXCEPT ![i] = IF iqdb[req[i].fid].present THEN "getIQ" ELSE "accounts"]
    /\ UNCHANGED <<routeVars, faucetVars, cleared, lookup, env, now, iqdb, users, req,
                   accts, casts, analysis, resp, calls, trace, inflight, faults,
                   heard, drawn, features>>

\* await hasRecentIQScore(fid, 30) returns
HasRecent(i) ==
    /\ pc[i] = "hasRecent"
    /\ pc' = [pc EXCEPT ![i] =
                 IF hasRecentIQScore(req[i].fid, RecentDays) THEN "getIQ" ELSE "accounts"]
    /\ UNCHANGED <<routeVars, faucetVars, cleared, lookup, env, now, iqdb, users, req,
                   accts, casts, analysis, resp, calls, trace, inflight, faults,
                   heard, drawn, features>>

\* await hasRecentIQScore(fid, 30) throws
HasRecentThrows(i) ==
    /\ pc[i] = "hasRecent"
    /\ Fail(i, "hasRecentIQScore")
    /\ UNCHANGED <<routeVars, faucetVars, cleared, lookup, env, now, iqdb, users, req,
                   accts, casts, analysis, calls, trace, inflight, heard, drawn,
                   features>>

\* GetIQ that does not return the entry it read
GetIQ_Recompute(i) ==
    /\ pc[i] = "getIQ"
    /\ pc' = [pc EXCEPT ![i] = "accounts"]
    /\ UNCHANGED <<routeVars, faucetVars, cleared, lookup, env, now, iqdb, users, req,
                   accts, casts, analysis, resp, calls, trace, inflight, faults,
                   heard, drawn, features>>

\* await getIQScoreFromDatabase(fid) returns
GetIQ(i) ==
    /\ pc[i] = "getIQ"
    /\ LET cachedIQScore == getIQScoreFromDatabase(req[i].fid)
       IN  IF cachedIQScore.present
           THEN /\ pc' = [pc EXCEPT ![i] = "done"]
                /\ resp' = [resp EXCEPT ![i] = ScoreResponse(cachedIQScore, "database")]
           ELSE /\ pc' = [pc EXCEPT ![i] = "accounts"]
                /\ UNCHANGED resp
    /\ UNCHANGED <<routeVars, faucetVars, cleared, lookup, env, now, iqdb, users, req,
                   accts, casts, analysis, calls, trace, inflight, faults, heard,
                   drawn, features>>

\* await getIQScoreFromDatabase(fid) throws
GetIQThrows(i) ==
    /\ pc[i] = "getIQ"
    /\ Fail(i, "getIQScoreFromDatabase")
    /\ UNCHANGED <<routeVars, faucetVars, cleared, lookup, env, now, iqdb, users, req,
                   accts, casts, analysis, calls, trace, inflight, heard, drawn,
                   features>>

\* fetchUserCasts(fid) is called
SendFetchCasts(i) ==
    /\ pc' = [pc EXCEPT ![i] = "fetchUserCasts"]
    /\ calls' = Called(i, "fetchUserCasts")
    /\ inflight' = Sent(i, "fetchUserCasts")

\* let userVerifiedAccounts = verifiedAccounts; if (!userVerifiedAccounts) ...
\* the body carries a list of verified accounts, or none
Accounts(i) ==
    /\ pc[i] = "accounts"
    /\ \/ /\ \E list \in AccountLists : accts' = [accts EXCEPT ![i] = list]
          /\ SendFetchCasts(i)
       \/ /\ pc' = [pc EXCEPT ![i] = "getUser"]
          /\ UNCHANGED <<accts, calls, inflight>>
    /\ UNCHANGED <<routeVars, faucetVars, cleared, lookup, env, now, iqdb, users, req,
                   casts, analysis, resp, trace, faults, heard, drawn, features>>

\* await getUserFromDatabaseByFid(fid) returns
GetUser(i) ==
    /\ pc[i] = "getUser"
    /\ LET cachedUser == getUserFromDatabaseByFid(req[i].fid)
       IN  IF cachedUser.present
           THEN /\ accts' = [accts EXCEPT ![i] = cachedUser.verified_accounts]
                /\ SendFetchCasts(i)
           ELSE /\ pc' = [pc EXCEPT ![i] = "fetchUserData"]
                /\ calls' = Called(i, "fetchUserData")
                /\ inflight' = Sent(i, "fetchUserData")
                /\ UNCHANGED accts
    /\ UNCHANGED <<routeVars, faucetVars, cleared, lookup, env, now, iqdb, users, req,
                   casts, analysis, resp, trace, faults, heard, drawn, features>>

\* await getUserFromDatabaseByFid(fid) throws
GetUserThrows(i) ==
    /\ pc[i] = "getUser"
    /\ Fail(i, "getUserFromDatabaseByFid")
    /\ UNCHANGED <<routeVars, faucetVars, cleared, lookup, env, now, iqdb, users, req,
                   accts, casts, analysis, calls, trace, inflight, heard, drawn,
                   features>>

\* await fetchUserData(fid) returns: the accounts of the answer, or the
\* empty list when the call failed
FetchUserData(i) ==
    /\ pc[i] = "fetchUserData"
    /\ \E list \in AccountLists : accts' = [accts EXCEPT ![i] = list]
    /\ pc' = [pc EXCEPT ![i] = "fetchUserCasts"]
    /\ calls' = Called(i, "fetchUserCasts")
    /\ inflight' = [inflight EXCEPT ![i] = (@ \ {"fetchUserData"}) \cup {"fetchUserCasts"}]
    /\ UNCHANGED <<routeVars, faucetVars, cleared, lookup, env, now, iqdb, users, req,
                   casts, analysis, resp, trace, faults, heard, drawn, features>>

\* FetchUserCasts without the test of casts.length
FetchUserCasts_NoCheck(i) ==
    /\ pc[i] = "fetchUserCasts"
    /\ inflight' = Answered(i, "fetchUserCasts")
    /\ \E cs \in CastSets : casts' = [casts EXCEPT ![i] = cs]
    /\ pc' = [pc EXCEPT ![i] = "analyzeWithAI"]
    /\ UNCHANGED <<routeVars, faucetVars, cleared, lookup, env, now, iqdb, users, req,
                   accts, analysis, resp, calls, trace, faults, heard, drawn,
                   features>>

\* await fetchUserCasts(fid) returns: the casts of the answer, or the empty
\* list when the call failed; no casts end the request with 404
FetchUserCasts(i) ==
    /\ pc[i] = "fetchUserCasts"
    /\ inflight' = Answered(i, "fetchUserCasts")
    /\ \E cs \in CastSets :
        /\ casts' = [casts EXCEPT ![i] = cs]
        /\ IF Len(cs) = 0
           THEN /\ pc' = [pc EXCEPT ![i] = "done"]
                /\ resp' = [resp EXCEPT ![i] = ErrorResponse(404)]
           ELSE /\ pc' = [pc EXCEPT ![i] = "analyzeWithAI"]
                /\ UNCHANGED resp
    /\ UNCHANGED <<routeVars, faucetVars, cleared, lookup, env, now, iqdb, users, req,
                   accts, analysis, calls, trace, faults, heard, drawn, features>>

(***************************************************************************)
(* analyzeWithAI, one action per await and per branch between awaits.      *)
(***************************************************************************)
\* userData.verifiedAccounts?.find(account => account.platform === 'x')
XAccount(list) ==
    LET hits == {k \in 1..Len(list) : list[k].platform = "x"}
    IN  IF hits = {} THEN Account("none", "")
        ELSE list[CHOOSE k \in hits : \A j \in hits : k <= j]

\* HasXAccount with the platform test left out
HasXAccount_AnyPlatform(list) == Len(list) > 0 /\ list[1].username # ""

\* if (xAccount?.username)
HasXAccount(list) == XAccount(list).username # ""

\* analyzeWithAI is entered: the external IQ request is sent for a verified
\* X account, otherwise the providers are tried
AnalyzeWithAI(i) ==
    /\ pc[i] = "analyzeWithAI"
    /\ IF HasXAccount(accts[i])
       THEN /\ pc' = [pc EXCEPT ![i] = "external"]
            /\ trace' = Entered(i, "AuthoritativeLookup")
            /\ calls' = Called(i, "external")
            /\ inflight' = Sent(i, "external")
       ELSE /\ pc' = [pc EXCEPT ![i] = "openai"]
            /\ UNCHANGED <<trace, calls, inflight>>
    /\ UNCHANGED <<routeVars, faucetVars, cleared, lookup, env, now, iqdb, users, req,
                   accts, casts, analysis, resp, faults, heard, drawn, features>>

\* External without the return: the result is kept and the providers run
External_NoReturn(i) ==
    /\ pc[i] = "external"
    /\ inflight' = Answered(i, "external")
    /\ \E a \in ExternalAnswers :
        /\ lookup' = [lookup EXCEPT ![i] = a]
        /\ IF a.kind = "ok" /\ Truthy(a.iqScore)
           THEN analysis' = [analysis EXCEPT ![i] = ExternalResult(a.iqScore)]
           ELSE UNCHANGED analysis
    /\ pc' = [pc EXCEPT ![i] = "openai"]
    /\ UNCHANGED <<routeVars, faucetVars, cleared, env, now, iqdb, users, req, accts,
                   casts, resp, calls, trace, faults, heard, drawn, features>>

\* External without its try: a rejected fetch or body reaches the catch of POST
External_Unguarded(i) ==
    /\ pc[i] = "external"
    /\ inflight' = Answered(i, "external")
    /\ \E a \in ExternalAnswers :
        /\ lookup' = [lookup EXCEPT ![i] = a]
        /\ IF a.kind = "ok" /\ Truthy(a.iqScore)
           THEN /\ analysis' = [analysis EXCEPT ![i] = ExternalResult(a.iqScore)]
                /\ pc' = [pc EXCEPT ![i] = "save"]
                /\ UNCHANGED <<resp, faults>>
           ELSE IF a.kind \in {"rejected", "badBody"}
                THEN /\ Fail(i, "fetch")
                     /\ UNCHANGED analysis
                ELSE /\ pc' = [pc EXCEPT ![i] = "openai"]
                     /\ UNCHANGED <<analysis, resp, faults>>
    /\ UNCHANGED <<routeVars, faucetVars, cleared, env, now, iqdb, users, req, accts,
                   casts, calls, trace, heard, drawn, features>>

\* the external IQ request is answered
External(i) ==
    /\ pc[i] = "external"
    /\ inflight' = Answered(i, "external")
    /\ \E a \in ExternalAnswers :
        /\ lookup' = [lookup EXCEPT ![i] = a]
        /\ IF a.kind = "ok" /\ Truthy(a.iqScore)
           THEN /\ analysis' = [analysis EXCEPT ![i] = ExternalResult(a.iqScore)]
                /\ pc' = [pc EXCEPT ![i] = "save"]
           ELSE /\ pc' = [pc EXCEPT ![i] = "openai"]
                /\ UNCHANGED analysis
    /\ UNCHANGED <<routeVars, faucetVars, cleared, env, now, iqdb, users, req, accts,
                   casts, resp, calls, trace, faults, heard, drawn, features>>

\* TryOpenAI without the test of the key: the request is always sent
TryOpenAI_NoKeyCheck(i) ==
    /\ pc[i] = "openai"
    /\ trace' = Entered(i, "ProviderA")
    /\ lookup' = [lookup EXCEPT ![i] = NoAnswer]
    /\ features' = [features EXCEPT ![i] = Extracted[casts[i]]]
    /\ pc' = [pc EXCEPT ![i] = "openaiFetch"]
    /\ calls' = Called(i, "openai")
    /\ inflight' = Sent(i, "openai")
    /\ UNCHANGED <<routeVars, faucetVars, cleared, env, now, iqdb, users, req, accts,
                   casts, analysis, resp, faults, heard, drawn>>

\* the block of the external IQ request is left and the four extractors are
\* called; if (openaiApiKey): the request to OpenAI is sent, or the tier is
\* skipped
TryOpenAI(i) ==
    /\ pc[i] = "openai"
    /\ trace' = Entered(i, "ProviderA")
    /\ lookup' = [lookup EXCEPT ![i] = NoAnswer]
    /\ features' = [features EXCEPT ![i] = Extracted[casts[i]]]
    /\ IF env.openai
       THEN /\ pc' = [pc EXCEPT ![i] = "openaiFetch"]
            /\ calls' = Called(i, "openai")
            /\ inflight' = Sent(i, "openai")
       ELSE /\ pc' = [pc EXCEPT ![i] = "gemini"]
            /\ UNCHANGED <<calls, inflight>>
    /\ UNCHANGED <<routeVars, faucetVars, cleared, env, now, iqdb, users, req, accts,
                   casts, analysis, resp, faults, heard, drawn>>

\* what a provider tier does with its answer: it returns the parsed object,
\* clamped, or falls through
ProviderReturns(a) == a.kind = "parsed"

\* OpenAI with a retry: a rejected fetch is sent again
OpenAI_Retry(i) ==
    /\ pc[i] = "openaiFetch"
    /\ \E a \in ProviderAnswers :
        /\ heard' = [heard EXCEPT ![i] = a.parsed]
        /\ IF ProviderReturns(a)
           THEN /\ analysis' = [analysis EXCEPT ![i] = ProviderResult(a.parsed)]
                /\ pc' = [pc EXCEPT ![i] = "save"]
                /\ inflight' = Answered(i, "openai")
                /\ UNCHANGED calls
           ELSE IF a.kind = "rejected"
                THEN /\ calls' = Called(i, "openai")
                     /\ UNCHANGED <<pc, analysis, inflight>>
                ELSE /\ pc' = [pc EXCEPT ![i] = "gemini"]
                     /\ inflight' = Answered(i, "openai")
                     /\ UNCHANGED <<analysis, calls>>
    /\ UNCHANGED <<routeVars, faucetVars, cleared, lookup, env, now, iqdb, users, req,
                   accts, casts, resp, trace, faults, drawn, features>>

\* the request to OpenAI is answered
OpenAI(i) ==
    /\ pc[i] = "openaiFetch"
    /\ inflight' = Answered(i, "openai")
    /\ \E a \in ProviderAnswers :
        /\ heard' = [heard EXCEPT ![i] = a.parsed]
        /\ IF ProviderReturns(a)
           THEN /\ analysis' = [analysis EXCEPT ![i] = ProviderResult(a.parsed)]
                /\ pc' = [pc EXCEPT ![i] = "save"]
           ELSE /\ pc' = [pc EXCEPT ![i] = "gemini"]
                /\ UNCHANGED analysis
    /\ UNCHANGED <<routeVars, faucetVars, cleared, lookup, env, now, iqdb, users, req,
                   accts, casts, resp, calls, trace, faults, drawn, features>>

\* if (geminiApiKey): the request to Gemini is sent, or the tier is skipped
TryGemini(i) ==
    /\ pc[i] = "gemini"
    /\ trace' = Entered(i, "ProviderB")
    /\ IF env.gemini
       THEN /\ pc' = [pc EXCEPT ![i] = "geminiFetch"]
            /\ calls' = Called(i, "gemini")
            /\ inflight' = Sent(i, "gemini")
       ELSE /\ pc' = [pc EXCEPT ![i] = "heuristic"]
            /\ UNCHANGED <<calls, inflight>>
    /\ UNCHANGED <<routeVars, faucetVars, cleared, lookup, env, now, iqdb, users, req,
                   accts, casts, analysis, resp, faults, heard, drawn, features>>

\* Gemini without its try: a rejected fetch reaches the catch of analyzeWithAI
Gemini_Uncaught(i) ==
    /\ pc[i] = "geminiFetch"
    /\ inflight' = Answered(i, "gemini")
    /\ \E a \in ProviderAnswers :
        /\ heard' = [heard EXCEPT ![i] = a.parsed]
        /\ IF ProviderReturns(a)
           THEN /\ analysis' = [analysis EXCEPT ![i] = ProviderResult(a.parsed)]
                /\ pc' = [pc EXCEPT ![i] = "save"]
           ELSE /\ pc' = [pc EXCEPT ![i] =
                            IF a.kind = "rejected" THEN "degraded" ELSE "heuristic"]
                /\ UNCHANGED analysis
    /\ UNCHANGED <<routeVars, faucetVars, cleared, lookup, env, now, iqdb, users, req,
                   accts, casts, resp, calls, trace, faults, drawn, features>>

\* the request to Gemini is answered
Gemini(i) ==
    /\ pc[i] = "geminiFetch"
    /\ inflight' = Answered(i, "gemini")
    /\ \E a \in ProviderAnswers :
        /\ heard' = [heard EXCEPT ![i] = a.parsed]
        /\ IF ProviderReturns(a)
           THEN /\ analysis' = [analysis EXCEPT ![i] = ProviderResult(a.parsed)]
                /\ pc' = [pc EXCEPT ![i] = "save"]
           ELSE /\ pc' = [pc EXCEPT ![i] = "heuristic"]
                /\ UNCHANGED analysis
    /\ UNCHANGED <<routeVars, faucetVars, cleared, lookup, env, now, iqdb, users, req,
                   accts, casts, resp, calls, trace, faults, drawn, features>>

\* the fallback algorithm returns its result
Heuristic(i) ==
    /\ pc[i] = "heuristic"
    /\ trace' = Entered(i, "Heuristic")
    /\ \E random \in RandomValues :
        /\ analysis' = [analysis EXCEPT ![i] = HeuristicResult(casts[i], random)]
        /\ drawn' = Drew(i, random)
    /\ pc' = [pc EXCEPT ![i] = "save"]
    /\ UNCHANGED <<routeVars, faucetVars, cleared, lookup, env, now, iqdb, users, req,
                   accts, casts, resp, calls, inflight, faults, heard, features>>

\* an exception inside the outer try of analyzeWithAI reaches its catch
HeuristicThrows(i) ==
    /\ pc[i] = "heuristic"
    /\ trace' = Entered(i, "Heuristic")
    /\ pc' = [pc EXCEPT ![i] = "degraded"]
    /\ UNCHANGED <<routeVars, faucetVars, cleared, lookup, env, now, iqdb, users, req,
                   accts, casts, analysis, resp, calls, inflight, faults, heard,
                   drawn, features>>

\* the catch of analyzeWithAI returns the final fallback response
Degraded(i) ==
    /\ pc[i] = "degraded"
    /\ trace' = Entered(i, "Degraded")
    /\ \E random \in RandomValues :
        /\ analysis' = [analysis EXCEPT ![i] = DegradedResult(casts[i], random)]
        /\ drawn' = Drew(i, random)
    /\ pc' = [pc EXCEPT ![i] = "save"]
    /\ UNCHANGED <<routeVars, faucetVars, cleared, lookup, env, now, iqdb, users, req,
                   accts, casts, resp, calls, inflight, faults, heard, features>>

\* Save into one slot that all accounts share
Save_AnyAccount(i) ==
    /\ pc[i] = "save"
    /\ iqdb' = [f \in DOMAIN iqdb |-> Entry(analysis[i], now)]
    /\ resp' = [resp EXCEPT ![i] = ScoreResponse(analysis[i], "api")]
    /\ pc' = [pc EXCEPT ![i] = "done"]
    /\ UNCHANGED <<routeVars, faucetVars, cleared, lookup, env, now, users, req,
                   accts, casts, analysis, calls, trace, inflight, faults, heard,
                   drawn, features>>

\* await saveIQScoreToDatabase(...) returns, and POST answers
Save(i) ==
    /\ pc[i] = "save"
    /\ iqdb' = saveIQScoreToDatabase(req[i].fid, analysis[i])
    /\ resp' = [resp EXCEPT ![i] = ScoreResponse(analysis[i], "api")]
    /\ pc' = [pc EXCEPT ![i] = "done"]
    /\ UNCHANGED <<routeVars, faucetVars, cleared, lookup, env, now, users, req,
                   accts, casts, analysis, calls, trace, inflight, faults, heard,
                   drawn, features>>

\* SaveThrows without the inner try: the exception reaches the catch of POST
SaveThrows_Unguarded(i) ==
    /\ pc[i] = "save"
    /\ Fail(i, "saveIQScoreToDatabase")
    /\ UNCHANGED <<routeVars, faucetVars, cleared, lookup, env, now, iqdb, users, req,
                   accts, casts, analysis, calls, trace, inflight, heard, drawn,
                   features>>

\* await saveIQScoreToDatabase(...) throws: the inner catch logs, POST answers
SaveThrows(i) ==
    /\ pc[i] = "save"
    /\ faults' = Threw(i, "saveIQScoreToDatabase")
    /\ resp' = [resp EXCEPT ![i] = ScoreResponse(analysis[i], "api")]
    /\ pc' = [pc EXCEPT ![i] = "done"]
    /\ UNCHANGED <<routeVars, faucetVars, cleared, lookup, env, now, iqdb, users, req,
                   accts, casts, analysis, calls, trace, inflight, heard, drawn,
                   features>>

(***************************************************************************)
(* The clock advances, half a freshness threshold at a time.               *)
(***************************************************************************)
MaxTicks == 3
TickDays == RecentDays \div 2

Tick ==
    /\ now + TickDays <= MaxTicks * TickDays
    /\ now' = now + TickDays
    /\ UNCHANGED <<routeVars, faucetVars, cleared, lookup, env, iqdb, users, pc, req,
                   accts, casts, analysis, resp, calls, trace, inflight, faults,
                   heard, drawn, features>>

\* POST is called
Arrive(i) == Receive(i) \/ Reject(i)

\* POST goes on to its next await
Proceed(i) ==
    \/ HasRecent(i) \/ HasRecentThrows(i)
    \/ GetIQ(i) \/ GetIQThrows(i)
    \/ Accounts(i)
    \/ GetUser(i) \/ GetUserThrows(i)
    \/ FetchUserData(i)
    \/ FetchUserCasts(i)
    \/ AnalyzeWithAI(i)
    \/ External(i)
    \/ TryOpenAI(i) \/ OpenAI(i)
    \/ TryGemini(i) \/ Gemini(i)
    \/ Heuristic(i) \/ HeuristicThrows(i) \/ Degraded(i)
    \/ Save(i) \/ SaveThrows(i)
    \/ Finish(i)

\* no invocation is under way
Quiet == \A j \in Invs : pc[j] = "idle"

\* requests arrive one after the other
Next ==
    \/ \E i \in Invs : Quiet /\ Arrive(i)
    \/ \E i \in Invs : Proceed(i)

Spec == Init /\ [][Next]_vars

\* the same, with time passing between the requests, so that stored entries age
NextClock == Next \/ (Quiet /\ Tick)

SpecClock == Init /\ [][NextClock]_vars

\* a step the route takes by itself or that the store or the feed completes:
\* every await but the three fetches of analyzeWithAI
Step(i) ==
    \/ HasRecent(i) \/ HasRecentThrows(i)
    \/ GetIQ(i) \/ GetIQThrows(i)
    \/ Accounts(i)
    \/ GetUser(i) \/ GetUserThrows(i)
    \/ FetchUserData(i)
    \/ FetchUserCasts(i)
    \/ AnalyzeWithAI(i)
    \/ TryOpenAI(i)
    \/ TryGemini(i)
    \/ Heuristic(i) \/ HeuristicThrows(i) \/ Degraded(i)
    \/ Save(i) \/ SaveThrows(i)
    \/ Finish(i)

\* the fetches of analyzeWithAI carry no signal and no timer: the route goes
\* on whenever it can, and an answer of the lookup or of a provider may
\* never come
SpecLive == Init /\ [][Next]_vars /\ \A i \in Invs : WF_vars(Step(i))

\* the same with every fetch settling in the end
Respond(i) == External(i) \/ OpenAI(i) \/ Gemini(i)

SpecSettling == SpecLive /\ \A i \in Invs : WF_vars(Respond(i))

(***************************************************************************)
(* The extractors by themselves: one invocation has reached the extractor  *)
(* calls of analyzeWithAI with some casts, and calls them one after the    *)
(* other.                                                                  *)
(***************************************************************************)
MaxPosts == 2

PlainPost == Cast("gm", 0, 0, 0)
TwoTopicPost == Cast("AI and money", 5, 1, 0)
ThreeTopicPost == Cast("Art of the game: study data.", 3, 2, 1)
RepeatPost == Cast("code code vote", 10, 2, 0)
ViralPost == Cast("Truth! Lol", 40, 20, 6)

PostPool == {PlainPost, TwoTopicPost, ThreeTopicPost, RepeatPost, ViralPost}

\* the lists of 1..MaxPosts casts from the pool
PostSets == UNION {[1..n -> PostPool] : n \in 1..MaxPosts}

InitFeatures ==
    /\ env = [openai |-> FALSE, gemini |-> FALSE]
    /\ now = 0
    /\ iqdb = [f \in Fids |-> NoEntry]
    /\ users = [f \in Fids |-> NoUser]
    /\ \E j \in Invs, cs \in PostSets :
        /\ pc = [i \in Invs |-> IF i = j THEN "contentQuality" ELSE "idle"]
        /\ casts = [i \in Invs |-> IF i = j THEN cs ELSE <<>>]
    /\ req = [i \in Invs |-> NoRequest]
    /\ accts = [i \in Invs |-> <<>>]
    /\ analysis = [i \in Invs |-> NoResult]
    /\ resp = [i \in Invs |-> NoResponse]
    /\ calls = [i \in Invs |-> [c \in CallNames |-> 0]]
    /\ trace = [i \in Invs |-> <<>>]
    /\ inflight = [i \in Invs |-> {}]
    /\ faults = [i \in Invs |-> {}]
    /\ heard = [i \in Invs |-> NoPayload]
    /\ drawn = [i \in Invs |-> <<>>]
    /\ features = [i \in Invs |-> NoFeatures]
    /\ lookup = [i \in Invs |-> NoAnswer]
    /\ cleared = [f \in DOMAIN iqdb |-> NotCleared]
    /\ IdleFaucet
    /\ IdleRoutes

\* const contentAnalysis = analyzeContentQuality(userData.casts)
ContentQuality(i) ==
    /\ pc[i] = "contentQuality"
    /\ features' = [features EXCEPT ![i].contentAnalysis = analyzeContentQuality(casts[i])]
    /\ pc' = [pc EXCEPT ![i] = "engagement"]
    /\ UNCHANGED <<routeVars, faucetVars, cleared, lookup, env, now, iqdb, users, req,
                   accts, casts, analysis, resp, calls, trace, inflight, faults,
                   heard, drawn>>

\* const engagementMetrics = calculateEngagementMetrics(userData.casts)
Engagement(i) ==
    /\ pc[i] = "engagement"
    /\ features' =
           [features EXCEPT ![i].engagementMetrics = calculateEngagementMetrics(casts[i])]
    /\ pc' = [pc EXCEPT ![i] = "writingStyle"]
    /\ UNCHANGED <<routeVars, faucetVars, cleared, lookup, env, now, iqdb, users, req,
                   accts, casts, analysis, resp, calls, trace, inflight, faults,
                   heard, drawn>>

\* const writingStyleAnalysis = analyzeWritingStyle(userData.casts)
WritingStyle(i) ==
    /\ pc[i] = "writingStyle"
    /\ features' =
           [features EXCEPT ![i].writingStyleAnalysis = analyzeWritingStyle(casts[i])]
    /\ pc' = [pc EXCEPT ![i] = "topicDiversity"]
    /\ UNCHANGED <<routeVars, faucetVars, cleared, lookup, env, now, iqdb, users, req,
                   accts, casts, analysis, resp, calls, trace, inflight, faults,
                   heard, drawn>>

\* const topicDiversity = analyzeTopicDiversity(userData.casts)
TopicDiversity(i) ==
    /\ pc[i] = "topicDiversity"
    /\ features' = [features EXCEPT ![i].topicDiversity = analyzeTopicDiversity(casts[i])]
    /\ pc' = [pc EXCEPT ![i] = "extracted"]
    /\ UNCHANGED <<routeVars, faucetVars, cleared, lookup, env, now, iqdb, users, req,
                   accts, casts, analysis, resp, calls, trace, inflight, faults,
                   heard, drawn>>

NextFeatures ==
    \E i \in Invs :
        ContentQuality(i) \/ Engagement(i) \/ WritingStyle(i) \/ TopicDiversity(i)

SpecFeatures == InitFeatures /\ [][NextFeatures]_vars

(***************************************************************************)
(* The content and engagement extractors by themselves, called with casts  *)
(* whose lengths lie around the two length limits.                         *)
(***************************************************************************)
RECURSIVE Letters(_)
Letters(n) == IF n = 0 THEN "" ELSE "a" \o Letters(n - 1)

\* a cast of n characters with likes + 2 interactions
LengthCast(n, likes) == Cast(Letters(n), likes, 1, 1)

LengthPool ==
    { LengthCast(49, 0), LengthCast(50, 3), LengthCast(80, 3), LengthCast(100, 10),
      LengthCast(101, 3), LengthCast(120, 60) }

LengthSets ==
    UNION {[1..n -> LengthPool] : n \in 1..MaxPosts}
    \cup {Repeated(LengthCast(80, 3), 10)}

InitRatios ==
    /\ env = [openai |-> FALSE, gemini |-> FALSE]
    /\ now = 0
    /\ iqdb = [f \in Fids |-> NoEntry]
    /\ users = [f \in Fids |-> NoUser]
    /\ \E j \in Invs, cs \in LengthSets :
        /\ pc = [i \in Invs |-> IF i = j THEN "contentQuality" ELSE "idle"]
        /\ casts = [i \in Invs |-> IF i = j THEN cs ELSE <<>>]
    /\ req = [i \in Invs |-> NoRequest]
    /\ accts = [i \in Invs |-> <<>>]
    /\ analysis = [i \in Invs |-> NoResult]
    /\ resp = [i \in Invs |-> NoResponse]
    /\ calls = [i \in Invs |-> [c \in CallNames |-> 0]]
    /\ trace = [i \in Invs |-> <<>>]
    /\ inflight = [i \in Invs |-> {}]
    /\ faults = [i \in Invs |-> {}]
    /\ heard = [i \in Invs |-> NoPayload]
    /\ drawn = [i \in Invs |-> <<>>]
    /\ features = [i \in Invs |-> NoFeatures]
    /\ lookup = [i \in Invs |-> NoAnswer]
    /\ cleared = [f \in DOMAIN iqdb |-> NotCleared]
    /\ IdleFaucet
    /\ IdleRoutes

NextRatios == \E i \in Invs : ContentQuality(i) \/ Engagement(i)

SpecRatios == InitRatios /\ [][NextRatios]_vars

(***************************************************************************)
(* The fallback algorithm by itself: one invocation without a verified X   *)
(* account and without provider credentials has reached the fallback       *)
(* algorithm with one of the longer answers of the feed.                   *)
(***************************************************************************)
InitHeuristic ==
    /\ env = [openai |-> FALSE, gemini |-> FALSE]
    /\ now = 0
    /\ iqdb = [f \in Fids |-> NoEntry]
    /\ users = [f \in Fids |-> NoUser]
    /\ \E j \in Invs, cs \in LongFeeds, f \in Fids :
        /\ pc = [i \in Invs |-> IF i = j THEN "heuristic" ELSE "idle"]
        /\ casts = [i \in Invs |-> IF i = j THEN cs ELSE <<>>]
        /\ req = [i \in Invs |-> IF i = j THEN [fid |-> f] ELSE NoRequest]
        /\ trace = [i \in Invs |->
                       IF i = j THEN <<"CacheCheck", "ProviderA", "ProviderB">> ELSE <<>>]
        /\ calls = [i \in Invs |->
                       [c \in CallNames |->
                           IF i = j /\ c \in {"fetchUserData", "fetchUserCasts"}
                           THEN 1 ELSE 0]]
    /\ accts = [i \in Invs |-> <<>>]
    /\ analysis = [i \in Invs |-> NoResult]
    /\ resp = [i \in Invs |-> NoResponse]
    /\ inflight = [i \in Invs |-> {}]
    /\ faults = [i \in Invs |-> {}]
    /\ heard = [i \in Invs |-> NoPayload]
    /\ drawn = [i \in Invs |-> <<>>]
    /\ features = [i \in Invs |-> NoFeatures]
    /\ lookup = [i \in Invs |-> NoAnswer]
    /\ cleared = [f \in DOMAIN iqdb |-> NotCleared]
    /\ IdleFaucet
    /\ IdleRoutes

NextHeuristic == \E i \in Invs : Heuristic(i) \/ HeuristicThrows(i) \/ Degraded(i)

SpecHeuristic == InitHeuristic /\ [][NextHeuristic]_vars

(***************************************************************************)
(* Callers in parallel: caller c asks for the score of account c, again    *)
(* and again, and the invocations interleave at every await.               *)
(***************************************************************************)
NumCallers == 2

Callers == 1..NumCallers

InitParallel ==
    /\ env \in [openai : BOOLEAN, gemini : BOOLEAN]
    /\ now = 0
    /\ iqdb = [f \in Callers |-> NoEntry]
    /\ users = [f \in Callers |->
                   IF f = 1 THEN User(<<Account("github", "dev"), Account("x", "dev")>>)
                   ELSE NoUser]
    /\ pc = [i \in Callers |-> "idle"]
    /\ req = [i \in Callers |-> NoRequest]
    /\ accts = [i \in Callers |-> <<>>]
    /\ casts = [i \in Callers |-> <<>>]
    /\ analysis = [i \in Callers |-> NoResult]
    /\ resp = [i \in Callers |-> NoResponse]
    /\ calls = [i \in Callers |-> [c \in CallNames |-> 0]]
    /\ trace = [i \in Callers |-> <<>>]
    /\ inflight = [i \in Callers |-> {}]
    /\ faults = [i \in Callers |-> {}]
    /\ heard = [i \in Callers |-> NoPayload]
    /\ drawn = [i \in Callers |-> <<>>]
    /\ features = [i \in Callers |-> NoFeatures]
    /\ lookup = [i \in Callers |-> NoAnswer]
    /\ cleared = [f \in DOMAIN iqdb |-> NotCleared]
    /\ IdleFaucet
    /\ IdleRoutes

\* POST is entered by caller i, with the fid of its account
ReceiveOwn(i) ==
    /\ pc[i] = "idle"
    /\ req' = [req EXCEPT ![i] = [fid |-> i]]
    /\ cleared' = Asked(i, i)
    /\ pc' = [pc EXCEPT ![i] = "hasRecent"]
    /\ trace' = [trace EXCEPT ![i] = <<"CacheCheck">>]
    /\ UNCHANGED <<routeVars, faucetVars, lookup, env, now, iqdb, users,
                   accts, casts, analysis, resp, calls, inflight, faults, heard,
                   drawn, features>>

NextParallel == \E i \in Callers : ReceiveOwn(i) \/ Reject(i) \/ Proceed(i)

SpecParallel == InitParallel /\ [][NextParallel]_vars

(***************************************************************************)
(* Callers in parallel that all ask for the score of the same account.     *)
(***************************************************************************)
\* POST is entered by caller i, with the fid of the first account
ReceiveShared(i) ==
    /\ pc[i] = "idle"
    /\ req' = [req EXCEPT ![i] = [fid |-> 1]]
    /\ cleared' = Asked(i, 1)
    /\ pc' = [pc EXCEPT ![i] = "hasRecent"]
    /\ trace' = [trace EXCEPT ![i] = <<"CacheCheck">>]
    /\ UNCHANGED <<routeVars, faucetVars, lookup, env, now, iqdb, users,
                   accts, casts, analysis, resp, calls, inflight, faults, heard,
                   drawn, features>>

\* both provider keys are configured; the account has a stored user
\* document with a verified X account, or none
InitShared ==
    /\ env = [openai |-> TRUE, gemini |-> TRUE]
    /\ now = 0
    /\ iqdb = [f \in Callers |-> NoEntry]
    /\ users \in [Callers -> {NoUser, User(<<Account("x", "dev")>>)}]
    /\ \A f \in Callers : f # 1 => users[f] = NoUser
    /\ pc = [i \in Callers |-> "idle"]
    /\ req = [i \in Callers |-> NoRequest]
    /\ accts = [i \in Callers |-> <<>>]
    /\ casts = [i \in Callers |-> <<>>]
    /\ analysis = [i \in Callers |-> NoResult]
    /\ resp = [i \in Callers |-> NoResponse]
    /\ calls = [i \in Callers |-> [c \in CallNames |-> 0]]
    /\ trace = [i \in Callers |-> <<>>]
    /\ inflight = [i \in Callers |-> {}]
    /\ faults = [i \in Callers |-> {}]
    /\ heard = [i \in Callers |-> NoPayload]
    /\ drawn = [i \in Callers |-> <<>>]
    /\ features = [i \in Callers |-> NoFeatures]
    /\ lookup = [i \in Callers |-> NoAnswer]
    /\ cleared = [f \in DOMAIN iqdb |-> NotCleared]
    /\ IdleFaucet
    /\ IdleRoutes

NextShared == \E i \in Callers : ReceiveShared(i) \/ Reject(i) \/ Proceed(i)

SpecShared == InitShared /\ [][NextShared]_vars

(***************************************************************************)
(* The faucet route.  Requests interleave at every await of POST; the      *)
(* module-level currentWalletIndex is shared by all of them.  A balance is *)
(* counted in faucet amounts.                                              *)
(***************************************************************************)
\* the catch of POST
FaucetFails(r) ==
    /\ fpc' = [fpc EXCEPT ![r] = "done"]
    /\ fresp' = [fresp EXCEPT ![r] = FaucetError(500, "Failed to send faucet funds")]

\* POST is entered: the body is read and userAddress is validated; with an
\* address, hasReceivedFaucetFromDatabase is awaited
FaucetPost(r) ==
    /\ fpc[r] = "idle"
    /\ \E body \in FaucetBodies :
        IF body.kind = "missing"
        THEN /\ fpc' = [fpc EXCEPT ![r] = "done"]
             /\ fresp' = [fresp EXCEPT ![r] = FaucetError(400, "User address is required")]
             /\ UNCHANGED userAddress
        ELSE IF body.kind = "invalid"
             THEN /\ fpc' = [fpc EXCEPT ![r] = "done"]
                  /\ fresp' = [fresp EXCEPT ![r] = FaucetError(400, "Invalid Ethereum address")]
                  /\ UNCHANGED userAddress
             ELSE /\ fpc' = [fpc EXCEPT ![r] = "hasReceived"]
                  /\ userAddress' = [userAddress EXCEPT ![r] = body.address]
                  /\ UNCHANGED fresp
    /\ UNCHANGED <<routeVars, scoreVars, wallets, currentWalletIndex, balance,
                   transfers, faucetdb, faucetWallet, recordIndex>>

\* request.json() rejects
FaucetPostThrows(r) ==
    /\ fpc[r] = "idle"
    /\ FaucetFails(r)
    /\ UNCHANGED <<routeVars, scoreVars, wallets, currentWalletIndex, balance,
                   transfers, faucetdb, userAddress, faucetWallet, recordIndex>>

\* hasReceivedFaucetFromDatabase answers: an address with a record is turned
\* away; otherwise the wallet at currentWalletIndex is taken and its balance
\* is asked for
HasReceivedFaucet(r) ==
    /\ fpc[r] = "hasReceived"
    /\ IF hasReceivedFaucetFromDatabase(userAddress[r])
       THEN /\ fpc' = [fpc EXCEPT ![r] = "done"]
            /\ fresp' = [fresp EXCEPT ![r] =
                            FaucetError(400, "User has already received faucet funds")]
            /\ UNCHANGED faucetWallet
       ELSE IF wallets = 0
            THEN /\ fpc' = [fpc EXCEPT ![r] = "done"]
                 /\ fresp' = [fresp EXCEPT ![r] =
                                 FaucetError(500, "No faucet wallets configured")]
                 /\ UNCHANGED faucetWallet
            ELSE /\ fpc' = [fpc EXCEPT ![r] = "getBalance"]
                 /\ faucetWallet' = [faucetWallet EXCEPT ![r] = currentWalletIndex]
                 /\ UNCHANGED fresp
    /\ UNCHANGED <<routeVars, scoreVars, wallets, currentWalletIndex, balance,
                   transfers, faucetdb, userAddress, recordIndex>>

\* hasReceivedFaucetFromDatabase rejects
HasReceivedFaucetThrows(r) ==
    /\ fpc[r] = "hasReceived"
    /\ FaucetFails(r)
    /\ UNCHANGED <<routeVars, scoreVars, wallets, currentWalletIndex, balance,
                   transfers, faucetdb, userAddress, faucetWallet, recordIndex>>

\* provider.getBalance answers for the wallet taken: with too little, the
\* index moves on and the balance of the wallet it now names is asked for;
\* otherwise the transaction is sent from the wallet taken
GetBalance(r) ==
    /\ fpc[r] = "getBalance"
    /\ IF balance[faucetWallet[r]] < 1
       THEN /\ currentWalletIndex' = (currentWalletIndex + 1) % wallets
            /\ faucetWallet' = [faucetWallet EXCEPT ![r] = currentWalletIndex']
            /\ fpc' = [fpc EXCEPT ![r] = "getNextBalance"]
       ELSE /\ fpc' = [fpc EXCEPT ![r] = "sendTransaction"]
            /\ UNCHANGED <<currentWalletIndex, faucetWallet>>
    /\ UNCHANGED <<routeVars, scoreVars, wallets, balance, transfers, faucetdb,
                   userAddress, recordIndex, fresp>>

\* provider.getBalance answers for the next wallet
GetNextBalance(r) ==
    /\ fpc[r] = "getNextBalance"
    /\ IF balance[faucetWallet[r]] < 1
       THEN /\ fpc' = [fpc EXCEPT ![r] = "done"]
            /\ fresp' = [fresp EXCEPT ![r] =
                            FaucetError(500, "All faucet wallets have insufficient balance")]
       ELSE /\ fpc' = [fpc EXCEPT ![r] = "sendTransaction"]
            /\ UNCHANGED fresp
    /\ UNCHANGED <<routeVars, scoreVars, wallets, currentWalletIndex, balance,
                   transfers, faucetdb, userAddress, faucetWallet, recordIndex>>

\* provider.getBalance rejects
GetBalanceThrows(r) ==
    /\ fpc[r] \in {"getBalance", "getNextBalance"}
    /\ FaucetFails(r)
    /\ UNCHANGED <<routeVars, scoreVars, wallets, currentWalletIndex, balance,
                   transfers, faucetdb, userAddress, faucetWallet, recordIndex>>

\* sendTransaction resolves: the wallet taken pays userAddress
SendTransaction(r) ==
    /\ fpc[r] = "sendTransaction"
    /\ balance[faucetWallet[r]] >= 1
    /\ balance' = [balance EXCEPT ![faucetWallet[r]] = @ - 1]
    /\ transfers' = Append(transfers, Transfer(userAddress[r], faucetWallet[r], r))
    /\ fpc' = [fpc EXCEPT ![r] = "wait"]
    /\ UNCHANGED <<routeVars, scoreVars, wallets, currentWalletIndex, faucetdb,
                   userAddress, faucetWallet, recordIndex, fresp>>

\* sendTransaction rejects (the node is unreachable, or the wallet cannot
\* pay any more): nothing is sent
SendTransactionThrows(r) ==
    /\ fpc[r] = "sendTransaction"
    /\ FaucetFails(r)
    /\ UNCHANGED <<routeVars, scoreVars, wallets, currentWalletIndex, balance,
                   transfers, faucetdb, userAddress, faucetWallet, recordIndex>>

\* tx.wait() resolves; saveFaucetRecord is called with currentWalletIndex
Wait(r) ==
    /\ fpc[r] = "wait"
    /\ recordIndex' = [recordIndex EXCEPT ![r] = currentWalletIndex]
    /\ fpc' = [fpc EXCEPT ![r] = "saveFaucetRecord"]
    /\ UNCHANGED <<routeVars, scoreVars, wallets, currentWalletIndex, balance,
                   transfers, faucetdb, userAddress, faucetWallet, fresp>>

\* tx.wait() rejects: the node is unreachable while the transaction, which
\* is on the chain, is waited for
WaitThrows(r) ==
    /\ fpc[r] = "wait"
    /\ FaucetFails(r)
    /\ UNCHANGED <<routeVars, scoreVars, wallets, currentWalletIndex, balance,
                   transfers, faucetdb, userAddress, faucetWallet, recordIndex>>

\* saveFaucetRecord resolves; the index moves on and the success is answered
SaveFaucetRecord(r) ==
    /\ fpc[r] = "saveFaucetRecord"
    /\ faucetdb' = saveFaucetRecord(userAddress[r], recordIndex[r])
    /\ currentWalletIndex' = (currentWalletIndex + 1) % wallets
    /\ fpc' = [fpc EXCEPT ![r] = "done"]
    /\ fresp' = [fresp EXCEPT ![r] = FaucetSuccess(faucetWallet[r])]
    /\ UNCHANGED <<routeVars, scoreVars, wallets, balance, transfers, userAddress,
                   faucetWallet, recordIndex>>

\* saveFaucetRecord rejects
SaveFaucetRecordThrows(r) ==
    /\ fpc[r] = "saveFaucetRecord"
    /\ FaucetFails(r)
    /\ UNCHANGED <<routeVars, scoreVars, wallets, currentWalletIndex, balance,
                   transfers, faucetdb, userAddress, faucetWallet, recordIndex>>

\* the scoring route is not called
IdleScoring ==
    /\ env = [openai |-> FALSE, gemini |-> FALSE]
    /\ now = 0
    /\ iqdb = [f \in Fids |-> NoEntry]
    /\ users = [f \in Fids |-> NoUser]
    /\ pc = [i \in Invs |-> "idle"]
    /\ req = [i \in Invs |-> NoRequest]
    /\ accts = [i \in Invs |-> <<>>]
    /\ casts = [i \in Invs |-> <<>>]
    /\ analysis = [i \in Invs |-> NoResult]
    /\ resp = [i \in Invs |-> NoResponse]
    /\ calls = [i \in Invs |-> [c \in CallNames |-> 0]]
    /\ trace = [i \in Invs |-> <<>>]
    /\ inflight = [i \in Invs |-> {}]
    /\ faults = [i \in Invs |-> {}]
    /\ heard = [i \in Invs |-> NoPayload]
    /\ drawn = [i \in Invs |-> <<>>]
    /\ features = [i \in Invs |-> NoFeatures]
    /\ lookup = [i \in Invs |-> NoAnswer]
    /\ cleared = [f \in DOMAIN iqdb |-> NotCleared]

\* the module is loaded with 0..MaxWallets keys; each wallet is empty or
\* holds Funds faucet amounts
InitFaucet ==
    /\ IdleScoring
    /\ IdleRoutes
    /\ wallets \in 0..MaxWallets
    /\ balance \in [WalletIndexes -> {0, Funds}]
    /\ IdleRequests

NextFaucet ==
    \E r \in FaucetReqs :
        \/ FaucetPost(r) \/ FaucetPostThrows(r)
        \/ HasReceivedFaucet(r) \/ HasReceivedFaucetThrows(r)
        \/ GetBalance(r) \/ GetNextBalance(r) \/ GetBalanceThrows(r)
        \/ SendTransaction(r) \/ SendTransactionThrows(r)
        \/ Wait(r) \/ WaitThrows(r)
        \/ SaveFaucetRecord(r) \/ SaveFaucetRecordThrows(r)

SpecFaucet == InitFaucet /\ [][NextFaucet]_vars

(***************************************************************************)
(* The user search route.  Requests interleave at every await of POST.    *)
(***************************************************************************)
Logged(s, event) == [slog EXCEPT ![s] = Append(@, event)]

\* the catch of POST
SearchFails(s) ==
    /\ spc' = [spc EXCEPT ![s] = "done"]
    /\ sresp' = [sresp EXCEPT ![s] = SearchError(500)]

\* POST is entered and request.json() resolves: the schema rejects the body,
\* or the cleaned query is empty, or getUserFromDatabase is awaited
SearchPost(s) ==
    /\ spc[s] = "idle"
    /\ \E q \in Queries :
          IF ~SchemaAccepts(q)
          THEN /\ spc' = [spc EXCEPT ![s] = "done"]
               /\ sresp' = [sresp EXCEPT ![s] = SearchError(400)]
               /\ UNCHANGED query
          ELSE IF CleanQuery(q) = ""
          THEN /\ spc' = [spc EXCEPT ![s] = "done"]
               /\ sresp' = [sresp EXCEPT ![s] =
                               SearchResult(<<>>, "none", "No query provided")]
               /\ UNCHANGED query
          ELSE /\ spc' = [spc EXCEPT ![s] = "getUserFromDatabase"]
               /\ query' = [query EXCEPT ![s] = CleanQuery(q)]
               /\ UNCHANGED sresp
    /\ UNCHANGED <<scoreVars, faucetVars, mintVars, clearVars, found, slog>>

\* request.json() rejects
SearchPostThrows(s) ==
    /\ spc[s] = "idle"
    /\ SearchFails(s)
    /\ UNCHANGED <<scoreVars, faucetVars, mintVars, clearVars, query, found, slog>>

\* GetUserFromDatabase that goes on to the user API whatever the store holds
GetUserFromDatabase_Always(s) ==
    /\ spc[s] = "getUserFromDatabase"
    /\ IF CleanQuery(query[s]) = ""
       THEN /\ spc' = [spc EXCEPT ![s] = "done"]
            /\ sresp' = [sresp EXCEPT ![s] =
                            SearchResult(<<>>, "none", "No users found")]
            /\ slog' = Logged(s, "miss")
       ELSE /\ spc' = [spc EXCEPT ![s] = "fetch"]
            /\ slog' = [slog EXCEPT ![s] = @ \o <<"miss", "fetch">>]
            /\ UNCHANGED sresp
    /\ UNCHANGED <<scoreVars, faucetVars, mintVars, clearVars, query, found>>

\* await getUserFromDatabase(cleanQuery) returns: the cached user is
\* answered, or searchFarcasterUsers is called, which cleans the query again
\* and returns at once or awaits fetch
GetUserFromDatabase(s) ==
    /\ spc[s] = "getUserFromDatabase"
    /\ LET cachedUser == getUserFromDatabase(query[s])
       IN  IF cachedUser.present
           THEN /\ spc' = [spc EXCEPT ![s] = "done"]
                /\ sresp' = [sresp EXCEPT ![s] =
                                SearchResult(<<Transformed(cachedUser)>>, "database", "")]
                /\ slog' = Logged(s, "hit")
           ELSE IF CleanQuery(query[s]) = ""
           THEN /\ spc' = [spc EXCEPT ![s] = "done"]
                /\ sresp' = [sresp EXCEPT ![s] =
                                SearchResult(<<>>, "none", "No users found")]
                /\ slog' = Logged(s, "miss")
           ELSE /\ spc' = [spc EXCEPT ![s] = "fetch"]
                /\ slog' = [slog EXCEPT ![s] = @ \o <<"miss", "fetch">>]
                /\ UNCHANGED sresp
    /\ UNCHANGED <<scoreVars, faucetVars, mintVars, clearVars, query, found>>

\* await getUserFromDatabase(cleanQuery) throws
GetUserFromDatabaseThrows(s) ==
    /\ spc[s] = "getUserFromDatabase"
    /\ SearchFails(s)
    /\ UNCHANGED <<scoreVars, faucetVars, mintVars, clearVars, query, found, slog>>

\* fetch settles and searchFarcasterUsers returns: no user is answered, or
\* saveUserToDatabase is awaited
SearchFarcasterUsers(s) ==
    /\ spc[s] = "fetch"
    /\ \E list \in SearchAnswers(CleanQuery(query[s])) :
          /\ found' = [found EXCEPT ![s] = list]
          /\ IF Len(list) = 0
             THEN /\ spc' = [spc EXCEPT ![s] = "done"]
                  /\ sresp' = [sresp EXCEPT ![s] =
                                  SearchResult(<<>>, "none", "No users found")]
             ELSE /\ spc' = [spc EXCEPT ![s] = "saveUserToDatabase"]
                  /\ UNCHANGED sresp
    /\ UNCHANGED <<scoreVars, faucetVars, mintVars, clearVars, query, slog>>

\* the users of the response
TransformedUsers(s) == [k \in 1..Len(found[s]) |-> Transformed(found[s][k])]

\* await saveUserToDatabase(users[0]) returns
SaveUserToDatabase(s) ==
    /\ spc[s] = "saveUserToDatabase"
    /\ users' = saveUserToDatabase(found[s][1])
    /\ slog' = Logged(s, "saved")
    /\ spc' = [spc EXCEPT ![s] = "done"]
    /\ sresp' = [sresp EXCEPT ![s] = SearchResult(TransformedUsers(s), "api", "")]
    /\ UNCHANGED <<faucetVars, mintVars, clearVars, env, now, iqdb, pc, req, accts,
                   casts, analysis, resp, calls, trace, inflight, faults, heard,
                   drawn, features, lookup, cleared, query, found>>

\* await saveUserToDatabase(users[0]) throws: the inner catch logs it
SaveUserToDatabaseThrows(s) ==
    /\ spc[s] = "saveUserToDatabase"
    /\ slog' = Logged(s, "saveThrew")
    /\ spc' = [spc EXCEPT ![s] = "done"]
    /\ sresp' = [sresp EXCEPT ![s] = SearchResult(TransformedUsers(s), "api", "")]
    /\ UNCHANGED <<scoreVars, faucetVars, mintVars, clearVars, query, found>>

\* no user document is stored and no route but the search is called
InitSearch == IdleScoring /\ IdleFaucet /\ IdleRoutes

NextSearch ==
    \E s \in Searches :
        \/ SearchPost(s) \/ SearchPostThrows(s)
        \/ GetUserFromDatabase(s) \/ GetUserFromDatabaseThrows(s)
        \/ SearchFarcasterUsers(s)
        \/ SaveUserToDatabase(s) \/ SaveUserToDatabaseThrows(s)

SpecSearch == InitSearch /\ [][NextSearch]_vars

(***************************************************************************)
(* The mint route.  Requests interleave at every await of POST.            *)
(***************************************************************************)
Returned(m, call) == [steps EXCEPT ![m] = Append(@, call)]

\* the catch of POST
MintFails(m) ==
    /\ mpc' = [mpc EXCEPT ![m] = "done"]
    /\ mresp' = [mresp EXCEPT ![m] = MintError(500)]

\* POST is entered and request.json() resolves: a required parameter is
\* missing, or pinFileToIPFS is awaited
MintPost(m) ==
    /\ mpc[m] = "idle"
    /\ \E body \in MintBodies :
          /\ mbody' = [mbody EXCEPT ![m] = body]
          /\ IF ~body.imageDataUrl \/ ~body.userAddress \/ body.score = 0 \/ body.fid = 0
             THEN /\ mpc' = [mpc EXCEPT ![m] = "done"]
                  /\ mresp' = [mresp EXCEPT ![m] = MintError(400)]
             ELSE /\ mpc' = [mpc EXCEPT ![m] = "pinFileToIPFS"]
                  /\ UNCHANGED mresp
    /\ UNCHANGED <<scoreVars, faucetVars, searchVars, clearVars, steps, nfts,
                   leaderboard>>

\* request.json() rejects
MintPostThrows(m) ==
    /\ mpc[m] = "idle"
    /\ MintFails(m)
    /\ UNCHANGED <<scoreVars, faucetVars, searchVars, clearVars, mbody, steps, nfts,
                   leaderboard>>

\* await pinata.pinFileToIPFS(imageBuffer) returns
PinFileToIPFS(m) ==
    /\ mpc[m] = "pinFileToIPFS"
    /\ steps' = Returned(m, "pinFileToIPFS")
    /\ mpc' = [mpc EXCEPT ![m] = "pinJSONToIPFS"]
    /\ UNCHANGED <<scoreVars, faucetVars, searchVars, clearVars, mbody, nfts,
                   leaderboard, mresp>>

\* await pinata.pinFileToIPFS(imageBuffer) throws
PinFileToIPFSThrows(m) ==
    /\ mpc[m] = "pinFileToIPFS"
    /\ MintFails(m)
    /\ UNCHANGED <<scoreVars, faucetVars, searchVars, clearVars, mbody, steps, nfts,
                   leaderboard>>

\* await pinata.pinJSONToIPFS(metadata) returns; the contract is
\* constructed and mint is awaited
PinJSONToIPFS(m) ==
    /\ mpc[m] = "pinJSONToIPFS"
    /\ steps' = Returned(m, "pinJSONToIPFS")
    /\ mpc' = [mpc EXCEPT ![m] = "mint"]
    /\ UNCHANGED <<scoreVars, faucetVars, searchVars, clearVars, mbody, nfts,
                   leaderboard, mresp>>

\* await pinata.pinJSONToIPFS(metadata) throws
PinJSONToIPFSThrows(m) ==
    /\ mpc[m] = "pinJSONToIPFS"
    /\ MintFails(m)
    /\ UNCHANGED <<scoreVars, faucetVars, searchVars, clearVars, mbody, steps, nfts,
                   leaderboard>>

\* MintTransaction that does not wait for the receipt
MintTransaction_NoWait(m) ==
    /\ mpc[m] = "mint"
    /\ nfts' = Append(nfts, Token(m, mbody[m].score))
    /\ steps' = Returned(m, "mint")
    /\ mpc' = [mpc EXCEPT ![m] = "addToLeaderboard"]
    /\ UNCHANGED <<scoreVars, faucetVars, searchVars, clearVars, mbody, leaderboard,
                   mresp>>

\* await nftContract.mint(...) returns: the transaction is sent
MintTransaction(m) ==
    /\ mpc[m] = "mint"
    /\ nfts' = Append(nfts, Token(m, mbody[m].score))
    /\ steps' = Returned(m, "mint")
    /\ mpc' = [mpc EXCEPT ![m] = "wait"]
    /\ UNCHANGED <<scoreVars, faucetVars, searchVars, clearVars, mbody, leaderboard,
                   mresp>>

\* the construction of the wallet or of the contract throws, or
\* await nftContract.mint(...) throws
MintTransactionThrows(m) ==
    /\ mpc[m] = "mint"
    /\ MintFails(m)
    /\ UNCHANGED <<scoreVars, faucetVars, searchVars, clearVars, mbody, steps, nfts,
                   leaderboard>>

\* await mintTx.wait() returns the receipt; reading receipt.logs[0].topics[3]
\* throws when the receipt has no log, else addToLeaderboard is awaited
MintWait(m) ==
    /\ mpc[m] = "wait"
    /\ steps' = Returned(m, "wait")
    /\ \E logs \in BOOLEAN :
          IF logs
          THEN /\ mpc' = [mpc EXCEPT ![m] = "addToLeaderboard"]
               /\ UNCHANGED mresp
          ELSE MintFails(m)
    /\ UNCHANGED <<scoreVars, faucetVars, searchVars, clearVars, mbody, nfts,
                   leaderboard>>

\* await mintTx.wait() throws
MintWaitThrows(m) ==
    /\ mpc[m] = "wait"
    /\ MintFails(m)
    /\ UNCHANGED <<scoreVars, faucetVars, searchVars, clearVars, mbody, steps, nfts,
                   leaderboard>>

\* await addToLeaderboard(fid, username, pfpUrl, score) returns
AddToLeaderboard(m) ==
    /\ mpc[m] = "addToLeaderboard"
    /\ leaderboard' = addToLeaderboard(mbody[m].fid, mbody[m].score)
    /\ steps' = Returned(m, "addToLeaderboard")
    /\ mpc' = [mpc EXCEPT ![m] = "done"]
    /\ mresp' = [mresp EXCEPT ![m] = MintSuccess]
    /\ UNCHANGED <<scoreVars, faucetVars, searchVars, clearVars, mbody, nfts>>

\* await addToLeaderboard(...) throws: the inner catch logs it
AddToLeaderboardThrows(m) ==
    /\ mpc[m] = "addToLeaderboard"
    /\ steps' = Returned(m, "addToLeaderboardThrew")
    /\ mpc' = [mpc EXCEPT ![m] = "done"]
    /\ mresp' = [mresp EXCEPT ![m] = MintSuccess]
    /\ UNCHANGED <<scoreVars, faucetVars, searchVars, clearVars, mbody, nfts,
                   leaderboard>>

\* the leaderboard is empty and no route but the mint is called
InitMint == IdleScoring /\ IdleFaucet /\ IdleRoutes

NextMint ==
    \E m \in Mints :
        \/ MintPost(m) \/ MintPostThrows(m)
        \/ PinFileToIPFS(m) \/ PinFileToIPFSThrows(m)
        \/ PinJSONToIPFS(m) \/ PinJSONToIPFSThrows(m)
        \/ MintTransaction(m) \/ MintTransactionThrows(m)
        \/ MintWait(m) \/ MintWaitThrows(m)
        \/ AddToLeaderboard(m) \/ AddToLeaderboardThrows(m)

SpecMint == InitMint /\ [][NextMint]_vars

(***************************************************************************)
(* The clear-cache route, and the scoring route called while it runs: no   *)
(* provider key is configured, the callers all ask for the score of the    *)
(* first account, and the requests interleave at every await.              *)
(***************************************************************************)
\* the catch of POST
ClearFails(c) ==
    /\ cpc' = [cpc EXCEPT ![c] = "done"]
    /\ cresp' = [cresp EXCEPT ![c] = ClearError(500)]

\* POST is entered and request.json() resolves: the fid is missing, or the
\* database is connected to and updateOne is awaited
ClearPost(c) ==
    /\ cpc[c] = "idle"
    /\ \E fid \in {0} \cup DOMAIN iqdb :
          /\ cfid' = [cfid EXCEPT ![c] = fid]
          /\ IF fid = 0
             THEN /\ cpc' = [cpc EXCEPT ![c] = "done"]
                  /\ cresp' = [cresp EXCEPT ![c] = ClearError(400)]
             ELSE /\ cpc' = [cpc EXCEPT ![c] = "updateOne"]
                  /\ UNCHANGED cresp
    /\ UNCHANGED <<scoreVars, faucetVars, searchVars, mintVars>>

\* request.json() rejects
ClearPostThrows(c) ==
    /\ cpc[c] = "idle"
    /\ ClearFails(c)
    /\ UNCHANGED <<scoreVars, faucetVars, searchVars, mintVars, cfid>>

\* await collection.updateOne(...) returns: no document matched, or the
\* iqScore of the document is gone
UpdateOne(c) ==
    /\ cpc[c] = "updateOne"
    /\ iqdb' = unsetIQScore(cfid[c])
    /\ cpc' = [cpc EXCEPT ![c] = "done"]
    /\ IF HasDocument(cfid[c])
       THEN /\ cresp' = [cresp EXCEPT ![c] = ClearSuccess]
            /\ cleared' = [cleared EXCEPT ![cfid[c]] = JustCleared]
       ELSE /\ cresp' = [cresp EXCEPT ![c] = ClearError(404)]
            /\ UNCHANGED cleared
    /\ UNCHANGED <<faucetVars, searchVars, mintVars, env, now, users, pc, req, accts,
                   casts, analysis, resp, calls, trace, inflight, faults, heard,
                   drawn, features, lookup, cfid>>

\* connectToDatabase() or collection.updateOne(...) throws
UpdateOneThrows(c) ==
    /\ cpc[c] = "updateOne"
    /\ ClearFails(c)
    /\ UNCHANGED <<scoreVars, faucetVars, searchVars, mintVars, cfid>>

\* the account has a stored score that is recent, or a user document
\* without a score, or no document
InitClear ==
    /\ env = [openai |-> FALSE, gemini |-> FALSE]
    /\ now = 0
    /\ iqdb \in [Callers -> {NoEntry, Entry(HeuristicResult(<<ShortCast>>, 0), 0)}]
    /\ users \in [Callers -> {NoUser, User(<<>>)}]
    /\ \A f \in Callers : f # 1 => iqdb[f] = NoEntry /\ users[f] = NoUser
    /\ pc = [i \in Callers |-> "idle"]
    /\ req = [i \in Callers |-> NoRequest]
    /\ accts = [i \in Callers |-> <<>>]
    /\ casts = [i \in Callers |-> <<>>]
    /\ analysis = [i \in Callers |-> NoResult]
    /\ resp = [i \in Callers |-> NoResponse]
    /\ calls = [i \in Callers |-> [c \in CallNames |-> 0]]
    /\ trace = [i \in Callers |-> <<>>]
    /\ inflight = [i \in Callers |-> {}]
    /\ faults = [i \in Callers |-> {}]
    /\ heard = [i \in Callers |-> NoPayload]
    /\ drawn = [i \in Callers |-> <<>>]
    /\ features = [i \in Callers |-> NoFeatures]
    /\ lookup = [i \in Callers |-> NoAnswer]
    /\ cleared = [f \in Callers |-> NotCleared]
    /\ IdleFaucet
    /\ IdleRoutes

\* POST of the scoring route goes on to its next await
Score(i) ==
    \/ HasRecent(i) \/ HasRecentThrows(i)
    \/ GetIQ(i) \/ GetIQThrows(i)
    \/ Accounts(i)
    \/ GetUser(i) \/ GetUserThrows(i)
    \/ FetchUserData(i)
    \/ FetchUserCasts(i)
    \/ AnalyzeWithAI(i)
    \/ External(i)
    \/ TryOpenAI(i)
    \/ TryGemini(i)
    \/ Heuristic(i) \/ HeuristicThrows(i) \/ Degraded(i)
    \/ Save(i) \/ SaveThrows(i)

NextClear ==
    \/ \E i \in Callers : ReceiveShared(i) \/ Score(i)
    \/ \E c \in Clears :
          \/ ClearPost(c) \/ ClearPostThrows(c)
          \/ UpdateOne(c) \/ UpdateOneThrows(c)

SpecClear == InitClear /\ [][NextClear]_vars

(***************************************************************************)
(* Properties.                                                             *)
(***************************************************************************)
TierIndex(t) == CHOOSE k \in 1..Len(Tiers) : Tiers[k] = t
Last(seq) == seq[Len(seq)]
InTrace(i, t) == \E k \in 1..Len(trace[i]) : trace[i][k] = t
NetworkCalls == {"external", "openai", "gemini"}
CallOfTier(t) ==
    CASE t = "AuthoritativeLookup" -> "external"
      [] t = "ProviderA" -> "openai"
      [] t = "ProviderB" -> "gemini"
      [] OTHER -> "none"

(* C1: every response that carries a score has 55 <= score <= 145 and      *)
(* 0 <= confidence <= 100, whichever path produced it.                     *)
C1_ScoreAndConfidenceInRange ==
    \A i \in Invs :
        resp[i].success =>
            /\ InRange(resp[i].score, MinScore, MaxScore)
            /\ InRange(resp[i].confidence, MinConfidence, MaxConfidence)

(* C2: within one invocation the tiers are entered in the order            *)
(* CacheCheck, AuthoritativeLookup, ProviderA, ProviderB, Heuristic,       *)
(* Degraded; at most one call is in flight, and it is the call of the tier *)
(* entered last, made while no tier has produced a result; once a result   *)
(* exists the invocation is saving or done; a cache hit entered no tier    *)
(* after CacheCheck.                                                       *)
C2_TiersInOrder ==
    \A i \in Invs :
        /\ \A a, b \in 1..Len(trace[i]) :
               a < b => TierIndex(trace[i][a]) < TierIndex(trace[i][b])
        /\ Cardinality(inflight[i]) <= 1
        /\ inflight[i] \cap NetworkCalls # {} =>
               /\ trace[i] # <<>>
               /\ inflight[i] = {CallOfTier(Last(trace[i]))}
               /\ analysis[i] = NoResult
        /\ analysis[i] # NoResult => pc[i] \in {"save", "done"}
        /\ resp[i].source = "database" => trace[i] = <<"CacheCheck">>

C2_Witness ==
    \E i \in Invs :
        /\ trace[i] = Tiers
        /\ pc[i] = "done"
        /\ resp[i].success

(* C3: when the recency check said yes and the read returns the entry, the *)
(* invocation answers with that entry and has made no external call.       *)
(* Checked with the clock running, so that entries are fresh, aged or      *)
(* stale when the request arrives.                                         *)
C3_CacheHitShortCircuits ==
    [][\A i \in Invs :
           ( /\ pc[i] = "getIQ"
             /\ pc'[i] # "getIQ"
             /\ getIQScoreFromDatabase(req[i].fid).present
             /\ faults'[i] = {} )
           => /\ pc'[i] = "done"
              /\ resp'[i] = ScoreResponse(getIQScoreFromDatabase(req[i].fid), "database")
              /\ \A c \in CallNames : calls'[i][c] = 0]_vars

C3_Witness ==
    \E i \in Invs :
        /\ pc[i] = "done"
        /\ resp[i].source = "database"
        /\ resp[i].score = iqdb[req[i].fid].score
        /\ now > iqdb[req[i].fid].analyzedAt
        /\ \A c \in CallNames : calls[i][c] = 0

(* C4: when the casts were fetched and there are none, the invocation is   *)
(* over with the 404 answer: no result exists, no tier after CacheCheck    *)
(* was entered and no lookup or provider was called.                       *)
PostSetFetched(i) == calls[i]["fetchUserCasts"] > 0 /\ "fetchUserCasts" \notin inflight[i]

C4_EmptyPostSetIsNoContent ==
    \A i \in Invs :
        (PostSetFetched(i) /\ casts[i] = <<>>) =>
            /\ pc[i] = "done"
            /\ resp[i] = ErrorResponse(404)
            /\ analysis[i] = NoResult
            /\ trace[i] = <<"CacheCheck">>
            /\ \A c \in NetworkCalls : calls[i][c] = 0

C4_Witness == \E i \in Invs : PostSetFetched(i) /\ casts[i] = <<>>

(* C5: a provider tier produces a result only from a payload that has      *)
(* score, analysis and confidence and whose score is in 55..145; any other *)
(* payload makes the tier fall through.                                    *)
WellFormed(p) ==
    /\ InRange(p.score, MinScore, MaxScore)
    /\ p.analysis # Undefined
    /\ p.confidence.t = "num"

C5_MalformedPayloadFallsThrough ==
    \A i \in Invs :
        ( /\ trace[i] # <<>>
          /\ Last(trace[i]) \in {"ProviderA", "ProviderB"}
          /\ analysis[i] # NoResult )
        => WellFormed(heard[i])

(* C6: once a non-empty set of casts is fetched the invocation ends with a *)
(* successful answer, whatever the lookup and the providers answered.      *)
C6_TierFailuresNeverSurface ==
    \A i \in Invs :
        casts[i] # <<>> =>
            /\ resp[i].status \in {0, 200}
            /\ pc[i] = "done" => resp[i].success

C6_Witness ==
    \E i \in Invs :
        /\ pc[i] = "done"
        /\ resp[i].success
        /\ trace[i] = <<"CacheCheck", "AuthoritativeLookup", "ProviderA", "ProviderB",
                        "Heuristic">>
        /\ \A c \in NetworkCalls : calls[i][c] = 1

(* C7: an invocation whose recency check or entry read threw still ends    *)
(* with a score or with the no-content answer.                             *)
CacheReads == {"hasRecentIQScore", "getIQScoreFromDatabase"}

C7_CacheReadFailureContinues ==
    \A i \in Invs :
        (pc[i] = "done" /\ faults[i] \cap CacheReads # {}) =>
            resp[i].status \in {200, 404}

(* C8: when the save threw, the invocation is done and has answered with   *)
(* the result that was computed, as a success.                             *)
C8_WriteFailureStillReturnsScore ==
    \A i \in Invs :
        "saveIQScoreToDatabase" \in faults[i] =>
            /\ pc[i] = "done"
            /\ analysis[i] # NoResult
            /\ resp[i] = ScoreResponse(analysis[i], "api")

C8_Witness ==
    \E i \in Invs :
        /\ "saveIQScoreToDatabase" \in faults[i]
        /\ resp[i].success
        /\ iqdb[req[i].fid] = NoEntry

(* C9: within one invocation no external call is made twice and no tier is *)
(* entered twice.                                                          *)
C9_EachCallAtMostOnce ==
    \A i \in Invs :
        /\ \A c \in CallNames : calls[i][c] <= 1
        /\ \A a, b \in 1..Len(trace[i]) : a # b => trace[i][a] # trace[i][b]

C9_Witness ==
    \E i \in Invs :
        /\ pc[i] = "done"
        /\ \A c \in CallNames : calls[i][c] = 1

(* C10: with no verified account on platform x the external lookup is not  *)
(* called and the first tier after CacheCheck is ProviderA.                *)
NoXAccount(list) == \A k \in 1..Len(list) : list[k].platform # "x"

C10_NoXAccountSkipsLookup ==
    \A i \in Invs :
        NoXAccount(accts[i]) =>
            /\ calls[i]["external"] = 0
            /\ ~InTrace(i, "AuthoritativeLookup")
            /\ Len(trace[i]) >= 2 => trace[i][2] = "ProviderA"

C10_Witness ==
    \E i \in Invs :
        /\ accts[i] = <<Account("github", "dev")>>
        /\ Len(trace[i]) >= 2
        /\ pc[i] = "done"

(* C11: a provider whose key is not set is never called, and the step that *)
(* finds the key missing goes on to the next tier (ProviderB after         *)
(* ProviderA, the fallback algorithm after ProviderB), which is where a    *)
(* failed answer of that provider leads, with no call made, no result, no  *)
(* response and no exception.                                              *)
SkipsTo(i, to) ==
    /\ pc'[i] = to
    /\ calls'[i] = calls[i]
    /\ inflight'[i] = {}
    /\ analysis'[i] = NoResult
    /\ resp'[i] = NoResponse
    /\ faults'[i] = faults[i]

C11_MissingCredentialSkips ==
    [][\A i \in Invs :
           /\ (pc[i] = "openai" /\ ~env.openai /\ pc'[i] # pc[i])
                  => SkipsTo(i, "gemini")
           /\ (pc[i] = "gemini" /\ ~env.gemini /\ pc'[i] # pc[i])
                  => SkipsTo(i, "heuristic")
           /\ (~env.openai => calls'[i]["openai"] = 0)
           /\ (~env.gemini => calls'[i]["gemini"] = 0)
           \* a failed answer leads to the same place
           /\ (pc[i] = "openaiFetch" /\ pc'[i] \notin {"openaiFetch", "save"})
                  => pc'[i] = "gemini"
           /\ (pc[i] = "geminiFetch" /\ pc'[i] \notin {"geminiFetch", "save"})
                  => pc'[i] = "heuristic"]_vars

C11_Witness ==
    \E i \in Invs :
        /\ ~env.openai
        /\ ~env.gemini
        /\ pc[i] = "done"
        /\ resp[i].success
        /\ InTrace(i, "ProviderA")
        /\ InTrace(i, "ProviderB")
        /\ calls[i]["openai"] = 0
        /\ calls[i]["gemini"] = 0

(* C12: every invocation that was started returns in the end, also when    *)
(* the lookup or a provider never answers.                                 *)
C12_EveryInvocationReturns ==
    \A i \in Invs : (pc[i] \notin {"idle", "done"}) ~> (pc[i] = "done")

(* C13: a result that the fallback algorithm produced has the score        *)
(* clamp(55, 145, round(70 + 0.6 * composite + 0.2 * postCount + j)), with  *)
(* composite a quarter of the sum of the four sub-scores, each capped to    *)
(* 0..100, and j = (random - 0.5) * 15 within -7.5..7.5: the score is a     *)
(* function of the casts and of the value drawn.  When both providers were  *)
(* called and neither gave a result, the result comes from the fallback     *)
(* algorithm (or from the catch, if the algorithm threw).                   *)
Capped(x) == Max2(0, Min2(100 * Scale, x))

Composite(cs) ==
    ( Capped(contentQualityScore(cs)) + Capped(writingStyleScore(cs))
      + Capped(engagementScore(cs)) + Capped(topicDiversityScore(cs)) ) \div 4

C13_Composite == [cs \in CastSets \ {<<>>} |-> Composite(cs)]

C13_Jitter(random) == (random * 15) - (15 * Scale) \div 2

C13_Score(cs, random) ==
    LET exact == 70 * Scale + (6 * C13_Composite[cs]) \div 10 + 20 * Len(cs)
                 + C13_Jitter(random)
    IN  Max2(55, Min2(145, Round(exact)))

FromHeuristic(i) ==
    /\ analysis[i] # NoResult
    /\ trace[i] # <<>>
    /\ Last(trace[i]) = "Heuristic"

BothProvidersFailed(i) ==
    /\ calls[i]["openai"] = 1
    /\ calls[i]["gemini"] = 1
    /\ inflight[i] = {}
    /\ heard[i] = NoPayload

C13_HeuristicScoreFormula ==
    \A i \in Invs :
        /\ FromHeuristic(i) =>
               /\ Len(drawn[i]) = 1
               /\ C13_Jitter(drawn[i][1]) \in (0 - (15 * Scale) \div 2)..((15 * Scale) \div 2)
               /\ analysis[i].score = Num(C13_Score(casts[i], drawn[i][1]))
        /\ (BothProvidersFailed(i) /\ analysis[i] # NoResult) =>
               Last(trace[i]) \in {"Heuristic", "Degraded"}

C13_Witness ==
    \E i \in Invs :
        /\ pc[i] = "done"
        /\ FromHeuristic(i)
        /\ BothProvidersFailed(i)
        /\ Len(casts[i]) = 2
        /\ resp[i].success
        /\ resp[i].score = Num(C13_Score(casts[i], drawn[i][1]))

(* C14: the source of every answer that carries a score names the tier     *)
(* that produced it: authoritative, providerA, providerB, heuristic or     *)
(* degraded, and on a cache hit the cache (cached; the route's word for it *)
(* is database).                                                           *)
NamesTier(source, tier) ==
    CASE tier = "CacheCheck" -> source \in {"cached", "database"}
      [] tier = "AuthoritativeLookup" -> source = "authoritative"
      [] tier = "ProviderA" -> source = "providerA"
      [] tier = "ProviderB" -> source = "providerB"
      [] tier = "Heuristic" -> source = "heuristic"
      [] tier = "Degraded" -> source = "degraded"
      [] OTHER -> FALSE

C14_SourceNamesTier ==
    \A i \in Invs :
        resp[i].success => NamesTier(resp[i].source, Last(trace[i]))

(* C15: the stored score is read and returned exactly when it is at most   *)
(* 30 days old: the recency check sends the invocation to the read of the  *)
(* entry iff an entry is stored and now - analyzedAt <= 30, otherwise the  *)
(* invocation goes on to recompute; an answer from the cache is always the *)
(* stored entry and that entry is at most 30 days old.                     *)
ValidEntry(fid) == iqdb[fid].present /\ now - iqdb[fid].analyzedAt <= 30

C15_FreshnessThreshold ==
    [][\A i \in Invs :
           /\ (pc[i] = "hasRecent" /\ pc'[i] # pc[i] /\ faults'[i] = faults[i]) =>
                  IF ValidEntry(req[i].fid)
                  THEN pc'[i] = "getIQ"
                  ELSE pc'[i] = "accounts"
           /\ (pc[i] = "getIQ" /\ pc'[i] # pc[i] /\ faults'[i] = faults[i]) =>
                  /\ ValidEntry(req[i].fid)
                  /\ pc'[i] = "done"
                  /\ resp'[i] = ScoreResponse(iqdb[req[i].fid], "database")
           /\ (resp'[i].source = "database" /\ resp[i].source # "database") =>
                  (pc[i] = "getIQ" /\ ValidEntry(req[i].fid))]_vars

C15_Witness ==
    \E i \in Invs :
        /\ pc[i] = "accounts"
        /\ iqdb[req[i].fid].present
        /\ now - iqdb[req[i].fid].analyzedAt > 30

(* C16: the catch of analyzeWithAI is reached only from the fallback       *)
(* algorithm: Degraded is entered directly after Heuristic and never after *)
(* the lookup or a provider, and once entered it has produced a result     *)
(* with a score in 55..145, which the invocation answers as a success.     *)
C16_DegradedOnlyAfterHeuristic ==
    \A i \in Invs :
        /\ pc[i] = "degraded" =>
               /\ Last(trace[i]) = "Heuristic"
               /\ analysis[i] = NoResult
        /\ InTrace(i, "Degraded") =>
               /\ Len(trace[i]) >= 2
               /\ Last(trace[i]) = "Degraded"
               /\ trace[i][Len(trace[i]) - 1] = "Heuristic"
               /\ analysis[i] # NoResult
               /\ InRange(analysis[i].score, MinScore, MaxScore)
               /\ pc[i] \in {"save", "done"}
               /\ pc[i] = "done" => resp[i] = ScoreResponse(analysis[i], "api")

C16_Witness ==
    \E i \in Invs :
        /\ pc[i] = "done"
        /\ InTrace(i, "Degraded")
        /\ calls[i]["external"] = 1
        /\ calls[i]["openai"] = 1
        /\ calls[i]["gemini"] = 1
        /\ resp[i].success

(* C17: the primary topic is a category with the highest match count, and  *)
(* among the categories that share the highest count it is the one         *)
(* declared first (tech, finance, politics, culture, sports, humor,        *)
(* philosophy, science).                                                   *)
TopicPosition(name) == CHOOSE k \in 1..Len(TopicNames) : TopicNames[k] = name

HighestCount(counts) ==
    CHOOSE n \in {counts[TopicNames[k]] : k \in 1..Len(TopicNames)} :
        \A k \in 1..Len(TopicNames) : counts[TopicNames[k]] <= n

FirstWithHighest(counts) ==
    TopicNames[CHOOSE k \in 1..Len(TopicNames) :
                  /\ counts[TopicNames[k]] = HighestCount(counts)
                  /\ \A j \in 1..(k - 1) : counts[TopicNames[j]] < HighestCount(counts)]

C17_PrimaryTopicFirstOnTies ==
    \A i \in Invs :
        pc[i] = "extracted" =>
            features[i].topicDiversity.primaryTopic
                = FirstWithHighest(features[i].topicDiversity.topicCounts)

(* C18: the consistency score of fewer than 2 casts is 0, that of 2 or     *)
(* more casts with the same number of interactions each is 100, and it is  *)
(* always within 0..100.                                                   *)
EngagementKnown(i) == pc[i] \in {"writingStyle", "topicDiversity", "extracted"}

SameInteractions(cs) ==
    \A a, b \in 1..Len(cs) : Interactions(cs[a]) = Interactions(cs[b])

AllText(cs) == Join([k \in 1..Len(cs) |-> cs[k].text], " ")

Mentioned(text) ==
    {k \in 1..Len(TopicNames) :
        \E a \in 1..Len(TopicKeywords[TopicNames[k]]) :
            \E pos \in 1..Len(text) :
                StartsAtLower(text, pos, TopicKeywords[TopicNames[k]][a])}

C19_DiversityScore ==
    \A i \in Invs :
        pc[i] = "extracted" =>
            LET active == Cardinality(Mentioned(AllText(casts[i])))
                score == features[i].topicDiversity.diversityScore
            IN  /\ 8 * score = 100 * Scale * active
                /\ active = 3 => 2 * score = 75 * Scale

C19_Witness ==
    \E i \in Invs :
        /\ pc[i] = "extracted"
        /\ Cardinality(Mentioned(AllText(casts[i]))) = 3
        /\ features[i].topicDiversity.activeTopics = 3
        /\ 2 * features[i].topicDiversity.diversityScore = 75 * Scale

(* C20: invocations for different accounts do not touch each other: a step *)
(* of one invocation leaves the locals of every other invocation and the   *)
(* stored data of every other account as they were, and what an invocation *)
(* answers is determined by what it read and heard itself: the stored      *)
(* entry of its account on a cache hit, otherwise the result that its last *)
(* tier computes from its casts, its provider answer and its random value, *)
(* which is also what it stores for its account.                           *)
Untouched(i) ==
    /\ req'[i] = req[i]
    /\ accts'[i] = accts[i]
    /\ casts'[i] = casts[i]
    /\ analysis'[i] = analysis[i]
    /\ resp'[i] = resp[i]
    /\ calls'[i] = calls[i]
    /\ trace'[i] = trace[i]
    /\ inflight'[i] = inflight[i]
    /\ faults'[i] = faults[i]
    /\ heard'[i] = heard[i]
    /\ lookup'[i] = lookup[i]
    /\ drawn'[i] = drawn[i]
    /\ iqdb'[i] = iqdb[i]
    /\ users'[i] = users[i]

OwnResults(i) ==
    CASE Last(trace[i]) = "AuthoritativeLookup" ->
             {ExternalResult(score) : score \in ExternalScores}
      [] Last(trace[i]) \in {"ProviderA", "ProviderB"} -> {ProviderResult(heard[i])}
      [] Last(trace[i]) = "Heuristic" -> {HeuristicResult(casts[i], drawn[i][1])}
      [] Last(trace[i]) = "Degraded" -> {DegradedResult(casts[i], drawn[i][1])}
      [] OTHER -> {}

AnswersOwn(i) ==
    (pc[i] = "done" /\ resp[i].success) =>
        IF resp[i].source = "database"
        THEN /\ resp[i] = ScoreResponse(iqdb[i], "database")
             /\ \A c \in CallNames : calls[i][c] = 0
        ELSE /\ resp[i] = ScoreResponse(analysis[i], "api")
             /\ analysis[i] \in OwnResults(i)
             /\ faults[i] = {} => iqdb[i] = Entry(analysis[i], now)

C20_AccountsIndependent ==
    [][\A i \in Callers :
           /\ pc'[i] = pc[i] => Untouched(i)
           /\ AnswersOwn(i)']_vars

C20_Witness ==
    \E i, j \in Callers :
        /\ i # j
        /\ pc[i] = "done"
        /\ resp[i].success
        /\ resp[i].source = "api"
        /\ iqdb[i].present
        /\ pc[j] = "geminiFetch"
        /\ calls[j]["openai"] = 1
        /\ ~iqdb[j].present

(* C21: when the external IQ request is answered successfully with an      *)
(* iqScore, the invocation returns that score clamped to 55..145 with      *)
(* confidence 85 and calls neither OpenAI nor Gemini; when the request     *)
(* fails, is answered with a non-OK status or carries no iqScore, the      *)
(* invocation goes on to OpenAI.                                           *)
ScorePresent(a) == a.kind = "ok" /\ a.iqScore # Undefined

C21_LookupDecides ==
    \A i \in Invs :
        lookup[i] # NoAnswer =>
            IF ScorePresent(lookup[i])
            THEN /\ pc[i] \in {"save", "done"}
                 /\ InRange(analysis[i].score, MinScore, MaxScore)
                 /\ analysis[i].score = Clamp(MinScore, MaxScore, lookup[i].iqScore)
                 /\ analysis[i].confidence = Num(ExternalConfidence)
                 /\ calls[i]["openai"] = 0
                 /\ calls[i]["gemini"] = 0
                 /\ pc[i] = "done" /\ resp[i].success =>
                        resp[i].score = analysis[i].score
            ELSE pc[i] = "openai"

(* C22: the confidence of a result of the fallback algorithm is            *)
(* clamp(30, 85, round(50 + 2 * postCount + 0.3 * composite)): it lies in   *)
(* 30..85, and it is 85 whenever there are 18 or more casts.               *)
C22_Confidence(cs) ==
    LET exact == 50 * Scale + 2 * Len(cs) * Scale + (3 * Composite(cs)) \div 10
    IN  Max2(30, Min2(85, Round(exact)))

C22_HeuristicConfidence ==
    \A i \in Invs :
        FromHeuristic(i) =>
            /\ analysis[i].confidence = Num(C22_Confidence(casts[i]))
            /\ InRange(analysis[i].confidence, 30, 85)
            /\ Len(casts[i]) >= 18 => analysis[i].confidence = Num(85)

C22_Witness ==
    \E i \in Invs :
        /\ FromHeuristic(i)
        /\ Len(casts[i]) >= 18
        /\ casts[i][1] = ShortCast
        /\ analysis[i].confidence = Num(85)

(* C23: the long-post ratio is the number of casts of more than 100        *)
(* characters, and the short-post ratio the number of casts of fewer than  *)
(* 50 characters, divided by the number of casts; for 10 casts of 80       *)
(* characters with 5 interactions each the two ratios are 0, the           *)
(* engagement per post is 5 and the consistency score is 100.              *)
ContentKnown(i) == pc[i] = "engagement" \/ EngagementKnown(i)

LongerThan(cs, m) == Cardinality({k \in 1..Len(cs) : Len(cs[k].text) > m})
ShorterThan(cs, m) == Cardinality({k \in 1..Len(cs) : Len(cs[k].text) < m})

\* ratio is count / n in hundredths, rounded down
IsRatio(ratio, count, n) ==
    ratio * n \in (count * Scale - n + 1)..(count * Scale)

TenPosts(cs) ==
    /\ Len(cs) = 10
    /\ \A k \in 1..Len(cs) : Len(cs[k].text) = 80 /\ Interactions(cs[k]) = 5

C23_LengthRatios ==
    \A i \in Invs :
        /\ ContentKnown(i) =>
               LET cs == casts[i]
                   c == features[i].contentAnalysis
               IN  /\ IsRatio(c.longPostRatio, LongerThan(cs, 100), Len(cs))
                   /\ IsRatio(c.shortPostRatio, ShorterThan(cs, 50), Len(cs))
                   /\ TenPosts(cs) => c.longPostRatio = 0 /\ c.shortPostRatio = 0
        /\ (EngagementKnown(i) /\ TenPosts(casts[i])) =>
               /\ features[i].engagementMetrics.engagementPerPost = 5 * Scale
               /\ features[i].engagementMetrics.consistencyScore = 100 * Scale

C23_Witness ==
    \E i \in Invs :
        /\ EngagementKnown(i)
        /\ TenPosts(casts[i])
        /\ features[i].contentAnalysis.longPostRatio = 0
        /\ features[i].contentAnalysis.shortPostRatio = 0
        /\ features[i].engagementMetrics.engagementPerPost = 5 * Scale
        /\ features[i].engagementMetrics.consistencyScore = 100 * Scale

(* C24: analyzeWithAI, and with it the four extractors, is never entered   *)
(* with an empty list of casts: no ratio is computed with a cast count of  *)
(* zero.                                                                   *)
InAnalyzeWithAI(i) ==
    pc[i] \in {"analyzeWithAI", "external", "openai", "openaiFetch", "gemini",
               "geminiFetch", "heuristic", "degraded"}

C24_ExtractorsNeedCasts ==
    \A i \in Invs :
        /\ InAnalyzeWithAI(i) => Len(casts[i]) > 0
        /\ features[i] # NoFeatures =>
               /\ Len(casts[i]) > 0
               /\ features[i].contentAnalysis = analyzeContentQuality(casts[i])
               /\ features[i].engagementMetrics = calculateEngagementMetrics(casts[i])

C24_Witness ==
    \E i \in Invs :
        /\ InAnalyzeWithAI(i)
        /\ features[i] # NoFeatures
        /\ Len(casts[i]) = 1
        /\ features[i].contentAnalysis.shortPostRatio = Scale

(* C25: no address is sent faucet funds more than once, also when faucet   *)
(* requests overlap; a request for an address that has a faucet record is  *)
(* turned away without a transaction.  Stated for runs in which no call of *)
(* the store or of the chain has failed.                                   *)
TransfersTo(a) == {k \in 1..Len(transfers) : transfers[k].to = a}
TransfersBy(r) == {k \in 1..Len(transfers) : transfers[k].by = r}
Failed(r) == fresp[r].error = "Failed to send faucet funds"
TurnedAway(r) == fresp[r].error = "User has already received faucet funds"

C25_OneTransferPerAddress ==
    (\A r \in FaucetReqs : ~Failed(r)) =>
        /\ \A a \in Addresses : Cardinality(TransfersTo(a)) <= 1
        /\ \A r \in FaucetReqs : TurnedAway(r) => TransfersBy(r) = {}

(* C26: when a request is answered with a success, currentWalletIndex is   *)
(* set to the index after the one of the wallet that paid it, also when    *)
(* requests overlap.                                                       *)
Succeeds(r) == fresp[r].status # 200 /\ fresp'[r].status = 200

C26_RoundRobin ==
    [][\A r \in FaucetReqs :
           Succeeds(r) => currentWalletIndex' = (faucetWallet[r] + 1) % wallets]_vars

(* C27: "All faucet wallets have insufficient balance" is answered only    *)
(* when every configured wallet holds less than the faucet amount.         *)
C27_AllWalletsInsufficient ==
    \A r \in FaucetReqs :
        fresp[r].error = "All faucet wallets have insufficient balance" =>
            \A w \in WalletIndexes : balance[w] < 1

(* C28: the wallet index saved with a faucet record is the index of the    *)
(* wallet that sent the transaction of that record, in every interleaving. *)
C28_RecordNamesPayer ==
    \A r \in FaucetReqs :
        fresp[r].status = 200 =>
            /\ recordIndex[r] = faucetWallet[r]
            /\ \E k \in TransfersBy(r) : transfers[k].from = recordIndex[r]

(* C29: a faucet request that is answered with an error has transferred no *)
(* funds.                                                                  *)
C29_ErrorMeansNoTransfer ==
    \A r \in FaucetReqs :
        fresp[r].status \in {400, 500} => TransfersBy(r) = {}

(* C30: when invocations for the same account overlap on a cache miss,    *)
(* every caller is answered the score that the store holds for the account *)
(* once all of them have finished.  Stated for runs in which no call of    *)
(* the store has failed.                                                   *)
AllFinished == \A i \in Callers : pc[i] = "done" /\ faults[i] = {}

C30_SameScoreForAll ==
    AllFinished =>
        \A i \in Callers :
            (resp[i].success /\ iqdb[req[i].fid].present) =>
                resp[i].score = iqdb[req[i].fid].score

(***************************************************************************)
(* C31: the user search is cache-first.  A search whose user the store     *)
(* holds when getUserFromDatabase returns is answered that user with       *)
(* source 'database' and makes no request to the user API; the user API is *)
(* requested only when the store held no such user; a user the API         *)
(* returned is saved to the store; and whether that save returns or        *)
(* throws, the search is answered the user with source 'api'.              *)
(***************************************************************************)
Fetched(s) == \E k \in 1..Len(slog[s]) : slog[s][k] = "fetch"

C31_CacheFirst ==
    [][\A s \in Searches :
          LET cachedUser == getUserFromDatabase(query[s])
          IN  /\ (/\ spc[s] = "getUserFromDatabase"
                  /\ spc'[s] # "getUserFromDatabase"
                  /\ sresp'[s].status # 500)
                 => IF cachedUser.present
                    THEN /\ sresp'[s] =
                               SearchResult(<<Transformed(cachedUser)>>, "database", "")
                         /\ ~Fetched(s)'
                    ELSE sresp'[s].source # "database"
              /\ (~Fetched(s) /\ Fetched(s)')
                 => spc[s] = "getUserFromDatabase" /\ ~cachedUser.present
              /\ (spc[s] = "fetch" /\ spc'[s] # "fetch")
                 => IF Len(found'[s]) = 0
                    THEN sresp'[s] = SearchResult(<<>>, "none", "No users found")
                    ELSE spc'[s] = "saveUserToDatabase"
              /\ (spc[s] = "saveUserToDatabase" /\ spc'[s] # "saveUserToDatabase")
                 => /\ sresp'[s] =
                          SearchResult(<<Transformed(found[s][1])>>, "api", "")
                    /\ Last(slog'[s]) \in {"saved", "saveThrew"}
                    /\ Last(slog'[s]) = "saved"
                       => users'[found[s][1].fid] = User(found[s][1].verified_accounts)
      ]_vars

\* one search was answered by the API although its save threw, another was
\* answered by the API and saved the user, and a third was then answered the
\* saved user from the store without a request to the API
C31_Witness ==
    \E s, t, u \in Searches :
        /\ slog[s] = <<"miss", "fetch", "saveThrew">>
        /\ sresp[s].source = "api" /\ Len(sresp[s].users) = 1
        /\ slog[t] = <<"miss", "fetch", "saved">>
        /\ sresp[t].source = "api"
        /\ slog[u] = <<"hit">>
        /\ sresp[u].source = "database"
        /\ sresp[u].users = sresp[t].users

(***************************************************************************)
(* C32: in the mint route the calls return in the order pinFileToIPFS,     *)
(* pinJSONToIPFS, mint, wait, addToLeaderboard.  A request that wrote the  *)
(* leaderboard had its mint confirmed before; a request answered an error  *)
(* wrote no leaderboard entry; a request whose leaderboard write threw is  *)
(* answered the mint all the same; and the leaderboard holds an entry only *)
(* for an account that some request minted for.                            *)
(***************************************************************************)
MintOrder == <<"pinFileToIPFS", "pinJSONToIPFS", "mint", "wait", "addToLeaderboard">>

InOrder(calls_) ==
    /\ Len(calls_) <= Len(MintOrder)
    /\ \A k \in 1..Len(calls_) :
          \/ calls_[k] = MintOrder[k]
          \/ k = Len(MintOrder) /\ calls_[k] = "addToLeaderboardThrew"

Did(m, call) == \E k \in 1..Len(steps[m]) : steps[m][k] = call

C32_LeaderboardAfterMint ==
    /\ \A m \in Mints :
          /\ InOrder(steps[m])
          /\ Did(m, "addToLeaderboard")
             => /\ Did(m, "wait")
                /\ \E k \in 1..Len(nfts) : nfts[k].by = m
          /\ (mpc[m] = "done" /\ mresp[m].status # 200)
             => ~Did(m, "addToLeaderboard") /\ ~Did(m, "addToLeaderboardThrew")
          /\ Did(m, "addToLeaderboardThrew") => mresp[m] = MintSuccess
          /\ mresp[m] = MintSuccess => Did(m, "wait")
    /\ \A f \in DOMAIN leaderboard :
          leaderboard[f].present
          => \E m \in Mints :
                /\ mbody[m].fid = f /\ leaderboard[f].score = mbody[m].score
                /\ Did(m, "addToLeaderboard")

\* one request was answered the mint although its leaderboard write threw,
\* with no entry written; another failed after its transaction was sent
C32_Witness ==
    \E m, n \in Mints :
        /\ steps[m] = <<"pinFileToIPFS", "pinJSONToIPFS", "mint", "wait",
                        "addToLeaderboardThrew">>
        /\ mresp[m] = MintSuccess
        /\ steps[n] = <<"pinFileToIPFS", "pinJSONToIPFS", "mint">>
        /\ mresp[n] = MintError(500)
        /\ \A f \in DOMAIN leaderboard : ~leaderboard[f].present

(***************************************************************************)
(* C33: the scoring invocation that is the next to ask for the score of an *)
(* account after a clear-cache of that account succeeded is not answered   *)
(* from the cache: it runs the pipeline; and a clear-cache for an account  *)
(* without a stored user document is answered 404 and changes nothing in   *)
(* the store.  Stated of runs in which no store call of a scoring          *)
(* invocation failed.                                                      *)
(***************************************************************************)
NextAfterClear(i) ==
    /\ req[i].fid \in DOMAIN cleared
    /\ cleared[req[i].fid] = FollowedBy(i)

C33_ClearedScoreIsRecomputed ==
    [][/\ \A i \in DOMAIN pc :
             (/\ NextAfterClear(i)'
              /\ pc'[i] = "done"
              /\ resp'[i].status = 200
              /\ \A j \in DOMAIN pc : faults'[j] = {})
             => /\ resp'[i].source # "database"
                /\ Len(trace'[i]) > 1
       /\ \A c \in Clears :
             (cpc[c] = "updateOne" /\ cpc'[c] = "done" /\ cresp'[c].status # 500)
             => IF HasDocument(cfid[c])
                THEN cresp'[c] = ClearSuccess /\ ~iqdb'[cfid[c]].present
                ELSE cresp'[c] = ClearError(404) /\ UNCHANGED <<iqdb, users>>
      ]_vars

====
